---------------------------- MODULE Spec2Model ----------------------------
(***************************************************************************)
(* A model of oracle_dev_utils: the static reference analyser of           *)
(* analyzer.py (remove_comments and find_object_references_in_file).       *)
(*                                                                         *)
(* Source text is a TLA+ string, i.e. a sequence of characters; a          *)
(* character is a string of length one.  Positions are 1-based, so the     *)
(* Python slice s[a:b] is Slice(s, a+1, b).                                *)
(***************************************************************************)
EXTENDS Integers, Sequences, FiniteSets, TLC

VARIABLES
    file_exists,        \* os.path.exists(file_path)
    file_text,          \* "".join(f.readlines()): the content of the file
    pc,                 \* position in find_object_references_in_file
    code_no_comments,   \* remove_comments(...) of the content
    lines_no_comments,  \* code_no_comments.splitlines()
    line_num,           \* number of lines the for loop has processed
    references,         \* the result list
    found_references,   \* the set of (full_ref_upper, line_num) keys
    file_opened,        \* open(file_path) was called
    exc,                \* the exception raised inside the try block, if any
    calls,              \* concurrent invocations: the locals of each
    environ,            \* os.environ: the environment variables that are set
    conn_vars,          \* the outcome of get_connection_details()
    connect_loaded,     \* compiler.connect is not None (lines 9-17)
    source,             \* the file at file_path: does it exist, can it be
                        \* read, and the text f.read() returns
    path,               \* the argument file_path
    cpc,                \* position in the function of compiler.py followed
    plsql_code,         \* the local plsql_code
    object_name,        \* the local object_name / the name returned
    result,             \* the dictionary compile_object returns
    conn,               \* the local conn: "None", "open" or "closed"
    raised,             \* the exception in flight in compile_object
    plsql_warning,      \* the local plsql_warning is not None
    error_messages,     \* the local error_messages
    db_calls,           \* calls made of connect(), cursor.execute(),
                        \* conn.commit() and conn.close()
    oracle_client_initialized,  \* db_connection._oracle_client_initialized
    initialization_error,       \* db_connection._initialization_error
    threads,            \* the threads calling into db_connection: where each
                        \* one is, its arguments and locals
    lib_calls,          \* calls made of oracledb.init_oracle_client (with
                        \* those that succeeded) and of oracledb.connect
    files,              \* the files of a batch run, with what is known of each
    bpc,                \* position in compile_all.main / cli.handle_compile
    file_index,         \* number of files the loop has processed
    counts,             \* success_count, warning_count and error_count
    results,            \* the list results of handle_compile
    overall_success,    \* the flag overall_success of handle_compile
    exit_code           \* the code the process exits with, None before

\* The variables of one invocation of find_object_references_in_file.
analyzer_vars ==
    <<file_exists, file_text, pc, code_no_comments, lines_no_comments,
      line_num, references, found_references, file_opened, exc>>

\* The variables of one call of a function of compiler.py.
compiler_vars ==
    <<connect_loaded, source, path, cpc, plsql_code, object_name, result,
      conn, raised, plsql_warning, error_messages, db_calls>>

\* The module globals of db_connection and the threads calling into it.
client_vars ==
    <<oracle_client_initialized, initialization_error, threads, lib_calls>>

\* The variables of a batch run (compile_all.main, cli.handle_compile).
batch_vars ==
    <<files, bpc, file_index, counts, results, overall_success, exit_code>>

\* The variables an invocation of find_object_references_in_file that is
\* followed on its own does not touch.
outside_analyzer ==
    <<calls, environ, conn_vars, compiler_vars, client_vars, batch_vars>>

\* The variables the concurrent invocations do not touch.
outside_concurrent ==
    <<analyzer_vars, environ, conn_vars, compiler_vars, client_vars,
      batch_vars>>

\* The variables get_connection_details does not touch.
outside_details ==
    <<analyzer_vars, calls, compiler_vars, client_vars, batch_vars>>

\* The variables the functions of compiler.py do not touch.
outside_compiler ==
    <<analyzer_vars, calls, environ, conn_vars, client_vars, batch_vars>>

\* The variables the calls into db_connection do not touch (they read
\* environ).
outside_client ==
    <<analyzer_vars, calls, environ, conn_vars, compiler_vars, batch_vars>>

\* The variables a batch run does not touch.
outside_batch ==
    <<analyzer_vars, calls, environ, conn_vars, compiler_vars, client_vars>>

vars ==
    <<analyzer_vars, calls, environ, conn_vars, compiler_vars, client_vars,
      batch_vars>>

\* No invocation of find_object_references_in_file is followed on its own.
AnalyzerIdle ==
    /\ file_exists = FALSE
    /\ file_text = ""
    /\ pc = "idle"
    /\ code_no_comments = ""
    /\ lines_no_comments = <<>>
    /\ line_num = 0
    /\ references = <<>>
    /\ found_references = {}
    /\ file_opened = FALSE
    /\ exc = "none"

\* There are no concurrent invocations.
ConcurrentIdle == calls = <<>>

\* Python's None where a string is expected.  The strings it stands beside
\* (the seven statuses, the upper-cased object names) are never this one.
None == "None"

\* No function of compiler.py is called.
CompilerIdle ==
    /\ connect_loaded = FALSE
    /\ source = [exists |-> FALSE, readable |-> FALSE, text |-> ""]
    /\ path = ""
    /\ cpc = "idle"
    /\ plsql_code = ""
    /\ object_name = None
    /\ result = [status |-> None, object_name |-> None,
                 messages |-> <<>>, file_path |-> ""]
    /\ conn = None
    /\ raised = "none"
    /\ plsql_warning = FALSE
    /\ error_messages = <<>>
    /\ db_calls = [connect |-> 0, execute |-> 0, commit |-> 0, close |-> 0]

\* Nothing calls into db_connection.
ClientIdle ==
    /\ oracle_client_initialized = FALSE
    /\ initialization_error = None
    /\ threads = <<>>
    /\ lib_calls = [init |-> 0, init_ok |-> 0, connect |-> 0]

\* The exit code of a process that has not exited.
NotExited == 0 - 1

\* No batch runs.
BatchIdle ==
    /\ files = <<>>
    /\ bpc = "idle"
    /\ file_index = 0
    /\ counts = [success |-> 0, warning |-> 0, error |-> 0]
    /\ results = <<>>
    /\ overall_success = TRUE
    /\ exit_code = NotExited

\* get_connection_details is not called: nothing is set, nothing returned.
DetailsIdle ==
    /\ environ = <<>>
    /\ conn_vars = [outcome |-> "idle", message |-> "",
                    user |-> "", password |-> "", dsn |-> ""]

----------------------------------------------------------------------------
(* Characters and character classes of Python's re module.                 *)

NL == "\n"
DQ == "\""

LowerLetters == "abcdefghijklmnopqrstuvwxyz"
UpperLetters == "ABCDEFGHIJKLMNOPQRSTUVWXYZ"
DigitChars   == "0123456789"

\* The Python slice s[a-1:b]: the characters at positions a..b that exist.
Slice(s, a, b) ==
    LET lo == IF a < 1 THEN 1 ELSE a
        hi == IF b > Len(s) THEN Len(s) ELSE b
    IN  IF lo > hi THEN "" ELSE SubSeq(s, lo, hi)

\* s[i-1] in Python terms; the empty string outside the text.
Char(s, i) == Slice(s, i, i)

\* s[i-1:]
From(s, i) == Slice(s, i, Len(s))

CharsOf(s) == {Slice(s, i, i) : i \in 1..Len(s)}

LowerSet == CharsOf(LowerLetters)
UpperSet == CharsOf(UpperLetters)
DigitSet == CharsOf(DigitChars)

\* \s
WhiteSpace == {" ", "\t", NL, "\r", "\f"}

\* \w: the characters between which \b finds no boundary
WordChars == LowerSet \cup UpperSet \cup DigitSet \cup {"_"}

\* [a-zA-Z0-9_$#]
IdentChars == WordChars \cup {"$", "#"}

\* str.upper() of one character
UpperChar(c) ==
    IF c \in LowerSet
    THEN Char(UpperLetters, CHOOSE i \in 1..26 : Char(LowerLetters, i) = c)
    ELSE c

\* str.upper()
RECURSIVE upper(_)
upper(s) == IF s = "" THEN "" ELSE UpperChar(Head(s)) \o upper(Tail(s))

\* s.startswith(prefix)
startswith(s, prefix) ==
    Len(s) >= Len(prefix) /\ Slice(s, 1, Len(prefix)) = prefix

\* s.endswith(suffix)
endswith(s, suffix) ==
    Len(s) >= Len(suffix) /\ Slice(s, Len(s) - Len(suffix) + 1, Len(s)) = suffix

\* s.rstrip()
RECURSIVE rstrip(_)
rstrip(s) ==
    IF s # "" /\ Char(s, Len(s)) \in WhiteSpace
    THEN rstrip(Slice(s, 1, Len(s) - 1))
    ELSE s

\* s.lstrip()
RECURSIVE lstrip(_)
lstrip(s) == IF s # "" /\ Head(s) \in WhiteSpace THEN lstrip(Tail(s)) ELSE s

\* s.strip()
strip(s) == lstrip(rstrip(s))

\* The least position p >= from at which sub occurs in s; 0 when there is none.
RECURSIVE Find(_, _, _)
Find(s, sub, from) ==
    IF from + Len(sub) - 1 > Len(s) THEN 0
    ELSE IF Slice(s, from, from + Len(sub) - 1) = sub THEN from
    ELSE Find(s, sub, from + 1)

\* The number of consecutive characters of class cls starting at position p.
RECURSIVE RunLen(_, _, _)
RunLen(s, p, cls) ==
    IF Char(s, p) \in cls THEN 1 + RunLen(s, p + 1, cls) ELSE 0

----------------------------------------------------------------------------
(* remove_comments                                                         *)

\* re.sub(r'/\*.*?\*/', '', code, flags=re.DOTALL): at each "/*" that has a
\* "*/" after it, the text up to and including the nearest "*/" is deleted
\* (line breaks included) and the scan resumes behind it.
RECURSIVE StripBlockComments(_)
StripBlockComments(code) ==
    IF code = "" THEN ""
    ELSE LET close == IF startswith(code, "/*") THEN Find(code, "*/", 3) ELSE 0
         IN  IF close # 0
             THEN StripBlockComments(From(code, close + 2))
             ELSE Head(code) \o StripBlockComments(Tail(code))

\* re.sub(r'\s*--.*?$', '', code, flags=re.MULTILINE): a match starts at the
\* first character of a white-space run (line breaks included) that is
\* followed by "--", and ends before the next "\n" or at the end of the text.
RECURSIVE StripLineComments(_)
StripLineComments(code) ==
    IF code = "" THEN ""
    ELSE LET dash == 1 + RunLen(code, 1, WhiteSpace)
             eol  == Find(code, NL, dash + 2)
         IN  IF Slice(code, dash, dash + 1) = "--"
             THEN IF eol = 0 THEN "" ELSE StripLineComments(From(code, eol))
             ELSE Head(code) \o StripLineComments(Tail(code))

remove_comments(code) == StripLineComments(StripBlockComments(code))

----------------------------------------------------------------------------
(* f.readlines(), "".join(...) and str.splitlines()                        *)

\* f.readlines(): the lines of the file, each with its "\n" (universal
\* newlines: the text read holds no other line ending).
RECURSIVE readlines(_)
readlines(text) ==
    IF text = "" THEN <<>>
    ELSE LET b == Find(text, NL, 1)
         IN  IF b = 0 THEN <<text>>
             ELSE <<Slice(text, 1, b)>> \o readlines(From(text, b + 1))

\* "".join(parts)
RECURSIVE join(_)
join(parts) == IF parts = <<>> THEN "" ELSE Head(parts) \o join(Tail(parts))

\* The line boundaries of str.splitlines() that a TLA+ string can hold.
LineBreaks == {NL, "\r", "\f"}

\* The position of the first line break at or after p; 0 when there is none.
RECURSIVE FindBreak(_, _)
FindBreak(s, p) ==
    IF p > Len(s) THEN 0
    ELSE IF Char(s, p) \in LineBreaks THEN p
    ELSE FindBreak(s, p + 1)

\* "\r\n" is one boundary; a final line break adds no empty last line.
RECURSIVE splitlines(_)
splitlines(s) ==
    IF s = "" THEN <<>>
    ELSE LET b == FindBreak(s, 1)
             w == IF b # 0 /\ Slice(s, b, b + 1) = "\r\n" THEN 2 ELSE 1
         IN  IF b = 0 THEN <<s>>
             ELSE <<Slice(s, 1, b - 1)>> \o splitlines(From(s, b + w))

----------------------------------------------------------------------------
(* identifier_regex: the tokenizer of find_object_references_in_file.      *)
(* Positions name the next character to consume; a matcher returns 0 when  *)
(* the pattern cannot match from there.  Candidates are listed in the      *)
(* order in which the backtracking matcher of re tries them (an optional   *)
(* item is tried present first, a repetition longest first), and the first *)
(* candidate whose continuation matches is the match.                      *)

\* \b at position p: exactly one of the characters around p is a \w.
WordBoundary(line, p) ==
    (Char(line, p - 1) \in WordChars) # (Char(line, p) \in WordChars)

\* LookbehindOK with the lookbehind left out.
LookbehindAlways(line, p) == TRUE

\* (?<![:=<>!])
LookbehindOK(line, p) == Char(line, p - 1) \notin {":", "=", "<", ">", "!"}

\* [a-zA-Z0-9_$#]{min,}\"? with the identifier starting at position s: the
\* ways to match it with k characters or fewer (the longest first, the
\* closing quote taken first), each with the identifier captured
\* (first..last) and the position behind the match.
RECURSIVE IdentCands(_, _, _, _)
IdentCands(line, s, k, min) ==
    IF k < min THEN <<>>
    ELSE (IF Char(line, s + k) = DQ
          THEN <<[first |-> s, last |-> s + k - 1, next |-> s + k + 1]>>
          ELSE <<>>)
         \o <<[first |-> s, last |-> s + k - 1, next |-> s + k]>>
         \o IdentCands(line, s, k - 1, min)

\* \"?[a-zA-Z0-9_$#]{min,}\"? from position p, the opening quote taken first.
QuotedIdent(line, p, min) ==
    (IF Char(line, p) = DQ
     THEN IdentCands(line, p + 1, RunLen(line, p + 1, IdentChars), min)
     ELSE <<>>)
    \o IdentCands(line, p, RunLen(line, p, IdentChars), min)

\* The words of the lookahead's second alternative.
LookaheadWords == {"AS", "IS", "NOT", "NULL", "DEFAULT", "THEN", "LOOP", "=>"}

\* (?=[\s.(%@;]|\s*\b(?:AS|IS|NOT|NULL|DEFAULT|THEN|LOOP|=>)\b|$), re.IGNORECASE
Lookahead(line, p) ==
    \/ Char(line, p) \in WhiteSpace \cup {".", "(", "%", "@", ";"}
    \/ \E sp \in 0..RunLen(line, p, WhiteSpace) : \E w \in LookaheadWords :
          /\ WordBoundary(line, p + sp)
          /\ upper(Slice(line, p + sp, p + sp + Len(w) - 1)) = w
          /\ WordBoundary(line, p + sp + Len(w))
    \/ p = Len(line) + 1

\* (?: \. \"? [a-zA-Z0-9_$#]+ \"? )* and the lookahead, from position p:
\* the position at which the match ends.  One more member is tried before
\* the lookahead; TryMembers goes through the ways to match that member.
RECURSIVE MembersEnd(_, _), TryMembers(_, _, _)
TryMembers(line, cands, j) ==
    IF j > Len(cands) THEN 0
    ELSE LET e == MembersEnd(line, cands[j].next)
         IN  IF e # 0 THEN e ELSE TryMembers(line, cands, j + 1)

\* MembersEnd with the member repetition matching no member.
MembersEndNoMember(line, p) == IF Lookahead(line, p) THEN p ELSE 0

MembersEnd(line, p) ==
    LET e == IF Char(line, p) = "."
             THEN TryMembers(line, QuotedIdent(line, p + 1, 1), 1)
             ELSE 0
    IN  IF e # 0 THEN e
        ELSE IF Lookahead(line, p) THEN p
        ELSE 0

NoMatch == [end |-> 0, schema |-> "", obj |-> ""]

\* The ways cands[j..] to match the object name, each continued by the
\* members and the lookahead.
RECURSIVE TryObject(_, _, _, _)
TryObject(line, cands, j, schema) ==
    IF j > Len(cands) THEN NoMatch
    ELSE LET e == MembersEnd(line, cands[j].next)
         IN  IF e # 0
             THEN [end    |-> e,
                   schema |-> schema,
                   obj    |-> Slice(line, cands[j].first, cands[j].last)]
             ELSE TryObject(line, cands, j + 1, schema)

\* ObjectPart with an object name of one character accepted.
ObjectPartOneChar(line, p, schema) ==
    TryObject(line, QuotedIdent(line, p, 1), 1, schema)

\* \"?([a-zA-Z0-9_$#]{2,})\"? (group 3), the members and the lookahead.
ObjectPart(line, p, schema) == TryObject(line, QuotedIdent(line, p, 2), 1, schema)

\* The ways cands[j..] to match the schema name (group 2), each continued by
\* the dot and the object part.
RECURSIVE TrySchema(_, _, _)
TrySchema(line, cands, j) ==
    IF j > Len(cands) THEN NoMatch
    ELSE LET m == IF Char(line, cands[j].next) = "."
                  THEN ObjectPart(line, cands[j].next + 1,
                           Slice(line, cands[j].first, cands[j].last))
                  ELSE NoMatch
         IN  IF m.end # 0 THEN m ELSE TrySchema(line, cands, j + 1)

\* The whole pattern tried at position p: with the optional schema part
\* first, without it next.  group(2) is "" (None) when the schema part took
\* no part in the match.
MatchAt(line, p) ==
    IF ~(LookbehindOK(line, p) /\ WordBoundary(line, p)) THEN NoMatch
    ELSE LET m == TrySchema(line, QuotedIdent(line, p, 1), 1)
         IN  IF m.end # 0 THEN m ELSE ObjectPart(line, p, "")

\* identifier_regex.finditer(line) from position p on: the matches from left
\* to right, none overlapping another.  start and end are match.start(1)
\* and match.end(1) as Python slice indices.
RECURSIVE finditer(_, _)
finditer(line, p) ==
    IF p > Len(line) THEN <<>>
    ELSE LET m == MatchAt(line, p)
         IN  IF m.end = 0 THEN finditer(line, p + 1)
             ELSE <<[start    |-> p - 1,
                     end      |-> m.end - 1,
                     full_ref |-> Slice(line, p, m.end - 1),
                     schema   |-> m.schema,
                     obj_name |-> m.obj]>> \o finditer(line, m.end)

----------------------------------------------------------------------------
(* PLSQL_KEYWORDS: the reserved words and built-in names, as listed.       *)

PLSQL_KEYWORDS == {
    "ACCESS", "ACCOUNT", "ACTIVATE", "ADD", "ADMIN", "ADVISE", "AFTER", "ALIAS", "ALL", "ALLOCATE", "ALLOW",
    "ALTER", "ANALYZE", "AND", "ANY", "ARCHIVE", "ARCHIVELOG", "ARRAY", "AS", "ASC", "AT", "AUDIT", "AUTHENTICATED",
    "AUTHORIZATION", "AUTO", "AUTOEXTEND", "AUTOMATIC", "BACKUP", "BECOME", "BEFORE", "BEGIN", "BETWEEN", "BFILE",
    "BITMAP", "BLOB", "BLOCK", "BODY", "BY", "CACHE", "CACHE_INSTANCES", "CANCEL", "CASCADE", "CASE", "CAST",
    "CFILE", "CHAINED", "CHANGE", "CHAR", "CHARACTER", "CHAR_CS", "CHECK", "CHECKPOINT", "CHOOSE", "CHUNK",
    "CLEAR", "CLOB", "CLONE", "CLOSE", "CLOSE_CACHED_OPEN_CURSORS", "CLUSTER", "COALESCE", "COLLECT", "COLUMN",
    "COLUMNS", "COMMENT", "COMMIT", "COMMITTED", "COMPATIBILITY", "COMPILE", "COMPLETE", "COMPOSITE_LIMIT",
    "COMPRESS", "COMPUTE", "CONNECT", "CONNECT_TIME", "CONSTRAINT", "CONSTRAINTS", "CONTENTS", "CONTINUE",
    "CONTROLFILE", "CONVERT", "COST", "CPU_PER_CALL", "CPU_PER_SESSION", "CREATE", "CROSS", "CUBE", "CURRENT",
    "CURRENT_SCHEMA", "CURREN_USER", "CURSOR", "CYCLE", "DANGLING", "DATABASE", "DATAFILE", "DATAFILES",
    "DATAOBJNO", "DATE", "DATE_CACHE", "DAY", "DBA", "DBTIMEZONE", "DDL", "READ", "DEBUG", "DEC", "DECIMAL",
    "DECLARE", "DEFAULT", "DEFERRABLE", "DEFERRED", "DEGREE", "DELETE", "DEMAND", "DENSE_RANK", "DEPTH", "DESC",
    "DIRECTORY", "DISABLE", "DISASSOCIATE", "DISCONNECT", "DISK", "DISKGROUP", "DISMOUNT", "DISTINCT",
    "DISTRIBUTED", "DML", "DOUBLE", "DROP", "DUMP", "DYNAMIC", "EACH", "ELSE", "ENABLE", "END", "ENFORCE",
    "ENTRY", "ERROR", "ESCAPE", "EXCEPT", "EXCEPTIONS", "EXCHANGE", "EXCLUDING", "EXCLUSIVE", "EXECUTE", "EXISTS",
    "EXPIRE", "EXPLAIN", "EXTEND", "EXTENDS", "EXTENT", "EXTERNALLY", "FAILGROUP", "FAILED_LOGIN_ATTEMPTS",
    "FALSE", "FAST", "FILE", "FILTER", "FINISH", "FIRST", "FIRST_ROWS", "FLAGGER", "FLASHBACK", "FLOAT", "FLOB",
    "FLUSH", "FOR", "FORCE", "FOREIGN", "FREELIST", "FREELISTS", "FROM", "FULL", "FUNCTION", "GLOBAL",
    "GLOBALLY", "GLOBAL_NAME", "GRANT", "GROUP", "GROUPS", "HASH", "HAVING", "HEADER", "HEAP", "HOUR",
    "IDENTIFIED", "IDGENERATORS", "IDLE_TIME", "IF", "IMMEDIATE", "IN", "INCLUDING", "INCREMENT", "INDEX",
    "INDEXED", "INDEXES", "INDICATOR", "IND_PARTITION", "INITIAL", "INITIALLY", "INITRANS", "INSERT", "INSTANCE",
    "INSTANCES", "INSTEAD", "INT", "INTEGER", "INTEGRITY", "INTERMEDIATE", "INTERNAL_USE", "INTERSECT",
    "INTERVAL", "INTO", "INVALIDATE", "IS", "ISOLATION", "JAVA", "JOIN", "KEEP", "KEY", "KILL", "LABEL", "LAST",
    "LAYER", "LESS", "LEVEL", "LIBRARY", "LIKE", "LIMIT", "LINK", "LIST", "LOB", "LOCAL", "LOCK", "LOCKED",
    "LOG", "LOGFILE", "LOGGING", "LOGICAL", "LOGICAL_READS_PER_CALL", "LOGICAL_READS_PER_SESSION", "LONG",
    "LOOP", "MANAGE", "MASTER", "MAX", "MAXARCHLOGS", "MAXDATAFILES", "MAXEXTENTS", "MAXIMIZE", "MAXINSTANCES",
    "MAXLOGFILES", "MAXLOGHISTORY", "MAXLOGMEMBERS", "MAXSIZE", "MAXTRANS", "MAXVALUE", "MEASURES", "MEMBER",
    "MERGE", "MIN", "MINEXTENTS", "MINIMIZE", "MINUS", "MINUTE", "MINVALUE", "MLSLABEL", "MODE", "MODIFY",
    "MONITORING", "MONTH", "MOUNT", "MOVE", "MTS_DISPATCHERS", "MULTISET", "NAME", "NATIONAL", "NATURAL",
    "NCHAR", "NCHAR_CS", "NCLOB", "NEEDED", "NESTED", "NETWORK", "NEVER", "NEW", "NEXT", "NOARCHIVELOG",
    "NOAUDIT", "NOCACHE", "NOCOMPRESS", "NOCYCLE", "NOFORCE", "NOLOGGING", "NOMAXVALUE", "NOMINVALUE",
    "NONE", "NOORDER", "NOOVERRIDE", "NOPARALLEL", "NOREVERSE", "NORMAL", "NOSORT", "NOT", "NOTHING", "NOWAIT",
    "NULL", "NUMBER", "NUMERIC", "NVARCHAR2", "OBJECT", "OBJNO", "OBJNO_REUSE", "OF", "OFF", "OFFLINE", "OID",
    "OIDINDEX", "OLD", "ON", "ONLINE", "ONLY", "OPAQUE", "OPEN", "OPERATOR", "OPTIMAL", "OPTIMIZER_GOAL",
    "OPTION", "OR", "ORDER", "ORGANIZATION", "OSERROR", "OVER", "OVERFLOW", "OVERRIDE", "OWN", "PACKAGE",
    "PARALLEL", "PARAMETERS", "PARENT", "PARTITION", "PASSWORD", "PASSWORD_GRACE_TIME", "PASSWORD_LIFE_TIME",
    "PASSWORD_LOCK_TIME", "PASSWORD_REUSE_MAX", "PASSWORD_REUSE_TIME", "PASSWORD_VERIFY_FUNCTION", "PCTFREE",
    "PCTINCREASE", "PCTTHRESHOLD", "PCTUSED", "PCTVERSION", "PERCENT", "PERMANENT", "PFILE", "PHYSICAL", "PLAN",
    "PLSQL_DEBUG", "POLICY", "POST_TRANSACTION", "PRECISION", "PREPARE", "PRESERVE", "PRIMARY", "PRIOR",
    "PRIVATE", "PRIVATE_SGA", "PRIVILEGE", "PRIVILEGES", "PROCEDURE", "PROFILE", "PROTECTED", "PUBLIC",
    "PURGE", "QUEUE", "QUOTA", "RAISE", "RANGE", "RAW", "RBA", "READUP", "REAL", "REBUILD", "RECOVER",
    "RECOVERABLE", "RECOVERY", "REF", "REFERENCES", "REFERENCING", "REFRESH", "RENAME", "REPLACE", "RESET",
    "RESETLOGS", "RESIZE", "RESOLVE", "RESOURCE", "RESTRICTED", "RETURN", "RETURNING", "REUSE", "REVERSE",
    "REVOKE", "ROLE", "ROLES", "ROLLBACK", "ROLLUP", "ROW", "ROWID", "ROWNUM", "ROWS", "RULE", "SAMPLE", "SAVEPOINT",
    "SB4", "SCAN_INSTANCES", "SCHEMA", "SCN", "SCOPE", "SD_ALL", "SD_INHIBIT", "SD_SHOW", "SECOND", "SEGMENT",
    "SEG_BLOCK", "SEG_FILE", "SELECT", "SEQUENCE", "SERIALIZABLE", "SESSION", "SESSIONS_PER_USER",
    "SESSION_CACHED_CURSORS", "SESSIONTIMEZONE", "SET", "SETS", "SHARE", "SHARED", "SHARED_POOL", "SHRINK",
    "SIZE", "SKIP", "SKIP_UNUSABLE_INDEXES", "SMALLINT", "SNAPSHOT", "SOME", "SORT", "SPECIFICATION", "SPLIT",
    "SPFILE", "SQL", "SQL_TRACE", "SQLERROR", "STANDBY", "START", "STARTING", "STATEMENT_ID", "STATISTICS",
    "STOP", "STORAGE", "STORE", "SUBPARTITION", "SUBSTITUTABLE", "SUCCESSFUL", "SWITCH", "SYNONYM", "SYSDATE",
    "SYSDBA", "SYSOPER", "SYSTEM", "TABLE", "TABLES", "TABLESPACE", "TABLESPACE_NO", "TABNO", "TEMPFILE",
    "TEMPLATE", "TEMPORARY", "TERMINATE", "THAN", "THE", "THEN", "THREAD", "THROUGH", "TIME", "TIMESTAMP",
    "TIMEZONE_ABBR", "TIMEZONE_HOUR", "TIMEZONE_MINUTE", "TIMEZONE_REGION", "TO", "TOPLEVEL", "TRACE",
    "TRACING", "TRANSACTION", "TRANSITIONAL", "TRIGGER", "TRIGGERS", "TRUE", "TRUNCATE", "TX", "TYPE", "UB2",
    "UBA", "UID", "UNARCHIVED", "UNDO", "UNIFORM", "UNION", "UNIQUE", "UNLIMITED", "UNLOCK", "UNPACKED",
    "UNPROTECTED", "UNRECOVERABLE", "UNTIL", "UNUSABLE", "UNUSED", "UPDATABLE", "UPDATE", "UPGRADE", "USAGE",
    "USE", "USER", "USING", "VALIDATE", "VALIDATION", "VALUE", "VALUES", "VARCHAR", "VARCHAR2", "VARYING",
    "VIEW", "WHEN", "WHENEVER", "WHERE", "WHILE", "WITH", "WITHIN", "WITHOUT", "WORK", "WRITE", "WRITEDOWN",
    "WRITEUP", "XMLATTRIBUTES", "XMLEXISTS", "XMLNAMESPACES", "YEAR", "ZONE",
    "DBMS_OUTPUT", "DBMS_SQL", "DBMS_LOCK", "DBMS_ALERT", "DBMS_PIPE", "DBMS_JOB", "DBMS_SCHEDULER",
    "DBMS_AQ", "DBMS_AQADM", "DBMS_CRYPTO", "DBMS_LOB", "DBMS_RANDOM", "DBMS_UTILITY", "UTL_FILE",
    "UTL_HTTP", "UTL_SMTP", "UTL_TCP", "UTL_URL", "UTL_RAW", "SYS_REFCURSOR", "ANYDATA", "XMLTYPE", "DUAL"
}

----------------------------------------------------------------------------
(* find_object_references_in_file                                          *)

\* re.match(r'^\s*(?:[lgcprt]_|v_)[a-zA-Z0-9_$#]+\s+(?:CONSTANT\s+)?
\*            (?:[A-Z0-9._"%]+|TABLE\s+OF|RECORD|CURSOR|REF\s+CURSOR)\b', text)
\* without re.IGNORECASE: the letters of the pattern match themselves only.
TypeChars == UpperSet \cup DigitSet \cup {".", "_", DQ, "%"}

\* word, white space, word, from position q: the positions behind it.
TwoWords(text, q, w1, w2) ==
    {q + Len(w1) + sp + Len(w2) : sp \in
        {n \in 1..RunLen(text, q + Len(w1), WhiteSpace) :
            /\ Slice(text, q, q + Len(w1) - 1) = w1
            /\ Slice(text, q + Len(w1) + n, q + Len(w1) + n + Len(w2) - 1) = w2}}

\* (?:[A-Z0-9._"%]+|TABLE\s+OF|RECORD|CURSOR|REF\s+CURSOR)\b from position q
TypeAt(text, q) ==
    \E e \in {q + k : k \in 1..RunLen(text, q, TypeChars)}
             \cup TwoWords(text, q, "TABLE", "OF")
             \cup {q + 6 : k \in {w \in {"RECORD", "CURSOR"} :
                                     Slice(text, q, q + 5) = w}}
             \cup TwoWords(text, q, "REF", "CURSOR") :
        WordBoundary(text, e)

\* The pattern of line 146 with the prefix letters as a parameter:
\* ^\s*(?:[letters]_)[a-zA-Z0-9_$#]+\s+(?:CONSTANT\s+)?(?:type)\b
DeclarationPattern(text, letters) ==
    LET p0 == 1 + RunLen(text, 1, WhiteSpace)
    IN  /\ Char(text, p0) \in letters
        /\ Char(text, p0 + 1) = "_"
        /\ \E n \in 1..RunLen(text, p0 + 2, IdentChars) :
             LET p1 == p0 + 2 + n
                 s1 == RunLen(text, p1, WhiteSpace)
                 p2 == p1 + s1
                 s2 == RunLen(text, p2 + 8, WhiteSpace)
             IN  /\ s1 >= 1
                 /\ \/ TypeAt(text, p2)
                    \/ /\ Slice(text, p2, p2 + 7) = "CONSTANT"
                       /\ s2 >= 1
                       /\ TypeAt(text, p2 + 8 + s2)

\* Line 146: re.match of the pattern, whose prefixes [lgcprt]_ and v_ are
\* written in lower case and which is compiled without re.IGNORECASE.
DeclarationMatch(text) ==
    DeclarationPattern(text, {"l", "g", "c", "p", "r", "t"} \cup {"v"})

\* The five filters one by one (lines 161, 166, 172, 180 and 186), each the
\* condition of an "if ...: continue".
RuleHolds(r, line, m) ==
    CASE r = 1 -> upper(m.full_ref) \in PLSQL_KEYWORDS
      [] r = 2 -> m.schema # "" /\ upper(m.schema) \in PLSQL_KEYWORDS
      [] r = 3 -> m.schema = "" /\ m.obj_name # ""
                  /\ upper(m.obj_name) \in PLSQL_KEYWORDS
      [] r = 4 -> \/ endswith(rstrip(Slice(line, 1, m.start)), ":=")
                  \/ endswith(rstrip(Slice(line, 1, m.start)), "=>")
      [] r = 5 -> startswith(lstrip(From(line, m.end + 1)), ":")

\* The filters evaluated as a decision list in the given order: the number
\* of the first filter that holds (the one whose "continue" runs), 0 if
\* none holds and the match is kept.
RECURSIVE FirstRule(_, _, _)
FirstRule(order, line, m) ==
    IF order = <<>> THEN 0
    ELSE IF RuleHolds(Head(order), line, m) THEN Head(order)
    ELSE FirstRule(Tail(order), line, m)

\* The order of lines 160-188.
RuleOrder == <<1, 2, 3, 4, 5>>

\* Dropped without the fifth filter.
DroppedNoLabelRule(line, m) == FirstRule(<<1, 2, 3, 4>>, line, m) # 0

\* Dropped with the first filter only.
DroppedExactOnly(line, m) == FirstRule(<<1>>, line, m) # 0

\* Dropped with the third filter applied to schema-qualified names too.
DroppedQualifiedToo(line, m) ==
    \/ upper(m.full_ref) \in PLSQL_KEYWORDS
    \/ upper(m.schema) # "" /\ upper(m.schema) \in PLSQL_KEYWORDS
    \/ upper(m.obj_name) \in PLSQL_KEYWORDS
    \/ endswith(rstrip(Slice(line, 1, m.start)), ":=")
    \/ endswith(rstrip(Slice(line, 1, m.start)), "=>")
    \/ startswith(lstrip(From(line, m.end + 1)), ":")

\* Lines 160-188: the five filters applied to one match of the tokenizer.
Dropped(line, m) ==
    LET full_ref_upper == upper(m.full_ref)
        schema_upper   == upper(m.schema)
        base_obj_upper == upper(m.obj_name)
        preceding_text == rstrip(Slice(line, 1, m.start))
        following_text == lstrip(From(line, m.end + 1))
    IN  \/ full_ref_upper \in PLSQL_KEYWORDS
        \/ schema_upper # "" /\ schema_upper \in PLSQL_KEYWORDS
        \/ schema_upper = "" /\ base_obj_upper # ""
              /\ base_obj_upper \in PLSQL_KEYWORDS
        \/ endswith(preceding_text, ":=") \/ endswith(preceding_text, "=>")
        \/ startswith(following_text, ":")

\* AddReference with the key made of the spelling as written.
AddReferenceCaseSensitive(acc, m, num) ==
    IF <<m.full_ref, num>> \notin acc.found
    THEN [refs  |-> Append(acc.refs,
                       [reference |-> m.full_ref, line_number |-> num]),
          found |-> acc.found \cup {<<m.full_ref, num>>}]
    ELSE acc

\* AddReference putting the new reference in front of the list.
AddReferenceInFront(acc, m, num) ==
    IF <<upper(m.full_ref), num>> \notin acc.found
    THEN [refs  |-> <<[reference |-> m.full_ref, line_number |-> num]>>
                       \o acc.refs,
          found |-> acc.found \cup {<<upper(m.full_ref), num>>}]
    ELSE acc

\* Lines 192-202: append the reference unless its key was seen before.
\* acc is [refs, found]; the result is acc after the match was handled.
AddReference(acc, m, num) ==
    LET ref_key == <<upper(m.full_ref), num>>
    IN  IF ref_key \notin acc.found
        THEN [refs  |-> Append(acc.refs,
                           [reference |-> m.full_ref, line_number |-> num]),
              found |-> acc.found \cup {ref_key}]
        ELSE acc

\* Lines 148-202: the loop over the matches of one line.
RECURSIVE ScanMatches(_, _, _, _)
ScanMatches(line, num, matches, acc) ==
    IF matches = <<>> THEN acc
    ELSE ScanMatches(line, num, Tail(matches),
             IF Dropped(line, Head(matches)) THEN acc
             ELSE AddReference(acc, Head(matches), num))

\* FileNotFound without the check of line 110: open() is called and raises.
FileNotFoundFallsThrough ==
    /\ pc = "start"
    /\ ~file_exists
    /\ file_opened' = TRUE
    /\ exc' = "Exception"
    /\ pc' = "except"
    /\ UNCHANGED <<file_exists, file_text, code_no_comments, lines_no_comments,
                   line_num, references, found_references>>
    /\ UNCHANGED outside_analyzer

\* Lines 109-112: the path does not exist.
FileNotFound ==
    /\ pc = "start"
    /\ ~file_exists
    /\ pc' = "done"
    /\ UNCHANGED <<file_exists, file_text, code_no_comments, lines_no_comments,
                   line_num, references, found_references, file_opened, exc>>
    /\ UNCHANGED outside_analyzer

\* Lines 114-140: read the file, strip the comments, split into lines.
ReadAndStrip ==
    /\ pc = "start"
    /\ file_exists
    /\ LET original_lines == readlines(file_text)
       IN  code_no_comments' = remove_comments(join(original_lines))
    /\ lines_no_comments' = splitlines(code_no_comments')
    /\ found_references' = {}
    /\ file_opened' = TRUE
    /\ pc' = "loop"
    /\ UNCHANGED <<file_exists, file_text, line_num, references, exc>>
    /\ UNCHANGED outside_analyzer

\* The matches the loop of line 148 runs over in a line: none in a line
\* that lines 143-146 skip.
LineMatches(line) ==
    IF strip(line) = "" \/ DeclarationMatch(upper(line))
    THEN <<>> ELSE finditer(line, 1)

\* The list and the set of keys become those of acc.
SetReferences(acc) ==
    /\ references' = acc.refs
    /\ found_references' = acc.found

\* Lines 142-202: one iteration of the loop over the lines.
ScanLine ==
    /\ pc = "loop"
    /\ line_num < Len(lines_no_comments)
    /\ line_num' = line_num + 1
    /\ SetReferences(ScanMatches(lines_no_comments[line_num + 1], line_num + 1,
                         LineMatches(lines_no_comments[line_num + 1]),
                         [refs |-> references, found |-> found_references]))
    /\ UNCHANGED <<file_exists, file_text, pc, code_no_comments,
                   lines_no_comments, file_opened, exc>>
    /\ UNCHANGED outside_analyzer

\* Line 217: the loop is over, the list is returned.
Return ==
    /\ pc = "loop"
    /\ line_num = Len(lines_no_comments)
    /\ pc' = "done"
    /\ UNCHANGED <<file_exists, file_text, code_no_comments, lines_no_comments,
                   line_num, references, found_references, file_opened, exc>>
    /\ UNCHANGED outside_analyzer

\* The exceptions a statement can raise: the ones "except Exception" of
\* line 204 catches, and the ones it does not (KeyboardInterrupt,
\* SystemExit: subclasses of BaseException only).
ExceptionKinds == {"Exception", "BaseException"}

\* Where control goes when a statement of the try block (lines 114-202)
\* raises: to the handler of line 204, or out of the function.
AfterRaise(kind) == IF kind = "Exception" THEN "except" ELSE "raised"

\* Lines 115-119: open(), readlines() or the stripping raises (the file
\* vanished or is unreadable, its bytes are not UTF-8, ...).
RaiseInRead ==
    /\ pc = "start"
    /\ file_exists
    /\ \E kind \in ExceptionKinds :
          /\ exc' = kind
          /\ pc' = AfterRaise(kind)
    /\ file_opened' = TRUE
    /\ UNCHANGED <<file_exists, file_text, code_no_comments, lines_no_comments,
                   line_num, references, found_references>>
    /\ UNCHANGED outside_analyzer

\* The loop over the matches of line num is left after k matches.
LeaveAfterSome(line, num, matches) ==
    \E k \in 0..Len(matches) :
        SetReferences(ScanMatches(line, num, SubSeq(matches, 1, k),
                          [refs |-> references, found |-> found_references]))

\* Lines 142-202: a statement of the loop body raises while the next line
\* is scanned, after k of its matches were processed.
RaiseInScan ==
    /\ pc = "loop"
    /\ line_num < Len(lines_no_comments)
    /\ LeaveAfterSome(lines_no_comments[line_num + 1], line_num + 1,
                      LineMatches(lines_no_comments[line_num + 1]))
    /\ \E kind \in ExceptionKinds :
          /\ exc' = kind
          /\ pc' = AfterRaise(kind)
    /\ UNCHANGED <<file_exists, file_text, code_no_comments, lines_no_comments,
                   line_num, file_opened>>
    /\ UNCHANGED outside_analyzer

\* Lines 204-205 and 217: the handler logs the exception, then the function
\* returns the list references.
HandleException ==
    /\ pc = "except"
    /\ pc' = "done"
    /\ UNCHANGED <<file_exists, file_text, code_no_comments, lines_no_comments,
                   line_num, references, found_references, file_opened, exc>>
    /\ UNCHANGED outside_analyzer

Next ==
    \/ FileNotFound
    \/ ReadAndStrip
    \/ ScanLine
    \/ Return
    \/ RaiseInRead
    \/ RaiseInScan
    \/ HandleException

\* The state before the call: references = [] (line 109), nothing read yet.
InitFor(texts) ==
    /\ file_exists \in BOOLEAN
    /\ file_text \in texts
    /\ file_exists = FALSE => file_text = ""
    /\ pc = "start"
    /\ code_no_comments = ""
    /\ lines_no_comments = <<>>
    /\ line_num = 0
    /\ references = <<>>
    /\ found_references = {}
    /\ file_opened = FALSE
    /\ exc = "none"
    /\ ConcurrentIdle
    /\ DetailsIdle
    /\ CompilerIdle
    /\ ClientIdle
    /\ BatchIdle

----------------------------------------------------------------------------
(* The files analysed.  A file's text is a concatenation of at most a      *)
(* bounded number of fragments of source text.                             *)

MaxCommentFrags == 5
MaxTokenFrags == 4
CasePeriod == 2
MaxRuleFrags == 4

Texts(frags, n) == {join(f) : f \in UNION {[1..k -> frags] : k \in 0..n}}

\* The inputs of section 8 of the specification (scenarios A, B and C).
ScenarioA == "SELECT * FROM hr.employees;"
ScenarioB == "-- FROM commented_table\nSELECT x FROM real_table;"
ScenarioC == "l_var NUMBER := 1;\nDBMS_OUTPUT.PUT_LINE('hi');"
Scenarios == {ScenarioA, ScenarioB, ScenarioC}

\* Comment markers, their pieces, line breaks and an identifier.
CommentFragments == {"/*", "*/", "--", NL, "ab", "-", " "}

\* An identifier in two spellings, a one-character identifier, the dot, a
\* member, and the characters the tokenizer and the filters look at.
TokenFragments == {"ab", "AB", "c", ".", ".c", " ", ";", NL, ":"}

\* A file with the same name twice on a line in two spellings, on three
\* lines, and with several names on a line.
SampleRepeats == "ab AB ab.c\nhr.ab ab;\nAb hr.AB HR.ab"
\* A file with dotted names behind a quote, an operator and a colon, with a
\* leading '$', with one-character parts and with quoted parts.
SampleDotted ==
    "x\"ab.cd $ab.cd;\nx=hr.emp; :new.salary;\na.b.cd; \"hr\".\"emp\" ("
Samples == {SampleRepeats, SampleDotted}

\* str.lower() of one character
LowerChar(c) ==
    IF c \in UpperSet
    THEN Char(LowerLetters, CHOOSE i \in 1..26 : Char(UpperLetters, i) = c)
    ELSE c

\* word with the letter at position i in lower case where mask[i mod CasePeriod]
RECURSIVE ApplyCase(_, _, _)
ApplyCase(word, mask, i) ==
    IF i > Len(word) THEN ""
    ELSE (IF mask[i % CasePeriod] THEN LowerChar(Char(word, i)) ELSE Char(word, i))
         \o ApplyCase(word, mask, i + 1)

\* The spellings of a word whose letter case repeats with period CasePeriod.
Casings(word) ==
    {ApplyCase(word, mask, 1) : mask \in [0..(CasePeriod - 1) -> BOOLEAN]}

\* Schema names that are not reserved words.
Schemas == {"anyschema", "HR"}

\* Every reserved word in these spellings, alone and qualified by a schema.
KeywordTexts ==
    UNION {Casings(w) \cup {sch \o "." \o c : sch \in Schemas, c \in Casings(w)} :
              w \in PLSQL_KEYWORDS}

Init == InitFor(Texts(CommentFragments, MaxCommentFrags) \cup Scenarios)
Spec == Init /\ [][Next]_vars

InitTokens ==
    InitFor(Texts(TokenFragments, MaxTokenFrags) \cup Scenarios \cup Samples)
SpecTokens == InitTokens /\ [][Next]_vars

\* Names that are reserved (dual, IS) and that are not, a schema, a member,
\* and the operators and the colon the filters look for.
RuleFragments == {"ab", "dual", "IS.", "sys.", ".c", " ", ":", ":=", "=>"}

\* A file in which each of the five filters drops a candidate and some
\* candidates pass.
SampleRules ==
    "x := hr.emp; p_a => ab\nlbl : sys.dual dual\nIS.ab dual.c ab hr.ab"

InitRules == InitFor(Texts(RuleFragments, MaxRuleFrags) \cup {SampleRules})
SpecRules == InitRules /\ [][Next]_vars

InitKeywords == InitFor(KeywordTexts \cup {""})
SpecKeywords == InitKeywords /\ [][Next]_vars

----------------------------------------------------------------------------
(* Notions the properties below are stated with.                           *)

\* The analysis of an existing file has returned and nothing was raised.
Done == pc = "done" /\ file_exists /\ exc = "none"

\* The comments are stripped (the file was read, nothing was raised).
Stripped == pc # "start" /\ file_exists /\ exc = "none"

\* text occurs in s
Occurs(s, text) == Find(s, text, 1) # 0

\* Every "/*" has a "*/" behind it and no "*/" stands alone.
RECURSIVE Balanced(_)
Balanced(text) ==
    IF text = "" THEN TRUE
    ELSE IF startswith(text, "/*")
         THEN LET close == Find(text, "*/", 3)
              IN  close # 0 /\ Balanced(From(text, close + 2))
    ELSE IF startswith(text, "*/") THEN FALSE
    ELSE Balanced(Tail(text))

\* The text outside comments, as section 4.1 of the specification defines
\* them and as the dialect reads them, in one pass from left to right: a
\* block comment runs from "/*" to the nearest following "*/", a line comment
\* from "--" to the end of its line; a marker inside a comment is no marker.
RECURSIVE Uncommented(_)
Uncommented(text) ==
    IF text = "" THEN ""
    ELSE IF startswith(text, "/*") /\ Find(text, "*/", 3) # 0
         THEN Uncommented(From(text, Find(text, "*/", 3) + 2))
    ELSE IF startswith(text, "--")
         THEN IF Find(text, NL, 3) = 0 THEN ""
              ELSE Uncommented(From(text, Find(text, NL, 3)))
    ELSE Head(text) \o Uncommented(Tail(text))

\* The identifiers of a text: its maximal runs of identifier characters.
IdentTokens(text) ==
    {Slice(text, p, p + RunLen(text, p, IdentChars) - 1) :
        p \in {q \in 1..Len(text) : /\ Char(text, q) \in IdentChars
                                     /\ Char(text, q - 1) \notin IdentChars}}

----------------------------------------------------------------------------
(* The properties.                                                         *)

\* C1: for a text whose /* */ pairs are balanced, remove_comments leaves the
\* number of lines unchanged:
\* len(remove_comments(text).splitlines()) = len(text.splitlines()).
C1_LineCountPreserved ==
    Stripped /\ Balanced(file_text) =>
        Len(splitlines(code_no_comments)) = Len(splitlines(file_text))

\* C2: every reference returned carries as line_number the number of the
\* line of the original file on which the reference text occurs.
C2_LineNumberOfOriginalFile ==
    Done =>
        \A i \in 1..Len(references) :
            LET r == references[i]
                original_lines == readlines(file_text)
            IN  Occurs(file_text, r.reference) =>
                    /\ r.line_number <= Len(original_lines)
                    /\ Occurs(original_lines[r.line_number], r.reference)

\* C3: comment stripping is idempotent:
\* remove_comments(remove_comments(text)) = remove_comments(text).
C3_StripIdempotent ==
    Stripped => remove_comments(code_no_comments) = code_no_comments

\* C4: text inside a comment never produces a reference (every reference
\* returned is text found outside the comments), while the identifiers
\* outside comments are still scanned (they are in the text the tokenizer
\* is run on).
C4_OnlyCommentsRemoved ==
    Done =>
        /\ \A i \in 1..Len(references) :
               Occurs(Uncommented(file_text), references[i].reference)
        /\ \A t \in IdentTokens(Uncommented(file_text)) :
               Occurs(code_no_comments, t)

\* The matches of line n that pass the filters, in scan order.
RECURSIVE Kept(_, _)
Kept(line, matches) ==
    IF matches = <<>> THEN <<>>
    ELSE (IF Dropped(line, Head(matches)) THEN <<>> ELSE <<Head(matches)>>)
         \o Kept(line, Tail(matches))

Survivors(n) ==
    LET line == lines_no_comments[n]
    IN  IF strip(line) = "" \/ DeclarationMatch(upper(line)) THEN <<>>
        ELSE Kept(line, finditer(line, 1))

\* The indices of the references with this key (upper-cased text, line).
EntriesFor(key, n) ==
    {i \in 1..Len(references) :
        references[i].line_number = n /\ upper(references[i].reference) = key}

\* The first survivor of line n with this key.
FirstWithKey(key, n) ==
    LET sv == Survivors(n)
        j  == CHOOSE j \in 1..Len(sv) :
                  /\ upper(sv[j].full_ref) = key
                  /\ \A k \in 1..(j - 1) : upper(sv[k].full_ref) # key
    IN  sv[j]

\* C5: a reserved word alone, in any letter case, is dropped; the same word
\* qualified by a schema that is not reserved is kept (nothing stands before
\* or behind it: no := or => and no ':').
C5_ReservedWordNeedsQualifier ==
    Done =>
        /\ upper(file_text) \in PLSQL_KEYWORDS => references = <<>>
        /\ \A sch \in Schemas :
              /\ startswith(file_text, sch \o ".")
              /\ upper(From(file_text, Len(sch) + 2)) \in PLSQL_KEYWORDS
              => references = <<[reference |-> file_text, line_number |-> 1]>>

\* A qualified reserved word written in mixed case was analysed and kept.
C5_Witness ==
    /\ Done
    /\ \E sch \in Schemas :
          /\ startswith(file_text, sch \o ".")
          /\ upper(From(file_text, Len(sch) + 2)) \in PLSQL_KEYWORDS
          /\ upper(From(file_text, Len(sch) + 2)) # From(file_text, Len(sch) + 2)
    /\ Len(references) = 1

\* C6: for each pair (upper-cased reference text, line number) among the
\* matches that survive classification the result holds exactly one entry,
\* spelled as the first occurrence; every entry comes from such a match.
C6_OneEntryPerNameAndLine ==
    Done =>
        /\ \A n \in 1..Len(lines_no_comments) :
              \A j \in 1..Len(Survivors(n)) :
                 LET key == upper(Survivors(n)[j].full_ref)
                 IN  /\ Cardinality(EntriesFor(key, n)) = 1
                     /\ \A i \in EntriesFor(key, n) :
                           references[i].reference = FirstWithKey(key, n).full_ref
        /\ \A i \in 1..Len(references) :
              /\ references[i].line_number \in 1..Len(lines_no_comments)
              /\ \E j \in 1..Len(Survivors(references[i].line_number)) :
                    Survivors(references[i].line_number)[j].full_ref
                        = references[i].reference

\* A name stands twice on one line in two spellings, and on another line too.
C6_Witness ==
    /\ Done
    /\ \E n, k \in 1..Len(lines_no_comments) :
          /\ n # k
          /\ \E a, b \in 1..Len(Survivors(n)) : \E c \in 1..Len(Survivors(k)) :
                /\ a < b
                /\ Survivors(n)[a].full_ref # Survivors(n)[b].full_ref
                /\ upper(Survivors(n)[a].full_ref) = upper(Survivors(n)[b].full_ref)
                /\ upper(Survivors(k)[c].full_ref) = upper(Survivors(n)[a].full_ref)

\* C7: the result is ordered by non-decreasing line number, and entries of
\* one line stand in the left-to-right order of their first match position.
C7_OrderedByLineAndPosition ==
    Done =>
        \A i, j \in 1..Len(references) :
            i < j =>
                LET ri == references[i]
                    rj == references[j]
                IN  \/ ri.line_number < rj.line_number
                    \/ /\ ri.line_number = rj.line_number
                       /\ FirstWithKey(upper(ri.reference), ri.line_number).start
                            < FirstWithKey(upper(rj.reference), rj.line_number).start

\* Two references of one line and a reference of a later line were returned.
C7_Witness ==
    /\ Done
    /\ \E i, j, k \in 1..Len(references) :
          /\ i < j /\ j < k
          /\ references[i].line_number = references[j].line_number
          /\ references[j].line_number < references[k].line_number

\* The characters of a dotted name.
NameChars == IdentChars \cup {"."}

\* The maximal runs of name characters of a line that read schema.object or
\* schema.object.member: first and last position, and the end of the first
\* and of the second segment.
DottedNames(line) ==
    {d \in {[s |-> s, e |-> s + RunLen(line, s, NameChars) - 1,
             e1 |-> s + RunLen(line, s, IdentChars) - 1,
             e2 |-> s + RunLen(line, s, IdentChars)
                      + RunLen(line, s + RunLen(line, s, IdentChars) + 1,
                               IdentChars)] :
                s \in {p \in 1..Len(line) :
                          /\ Char(line, p) \in NameChars
                          /\ Char(line, p - 1) \notin NameChars}} :
        LET dots == {i \in d.s..d.e : Char(line, i) = "."}
        IN  /\ Cardinality(dots) \in {1, 2}
            /\ \A i \in dots :
                  /\ i # d.s /\ i # d.e
                  /\ Char(line, i + 1) # "."}

NameOf(line, d) == Slice(line, d.s, d.e)

\* followed by whitespace, ';' or '('
Followed(line, d) == Char(line, d.e + 1) \in WhiteSpace \cup {";", "("}

\* C8 as stated: every dotted name followed by whitespace, ';' or '(' is
\* reported as one reference whose text is the whole name, and Scenario A
\* yields exactly hr.employees at line 1.
C8_DottedNameReportedWhole ==
    Done =>
        /\ \A n \in 1..Len(lines_no_comments) :
              LET line == lines_no_comments[n]
              IN  \A d \in DottedNames(line) :
                     Followed(line, d) =>
                        \E i \in 1..Len(references) :
                           references[i] = [reference   |-> NameOf(line, d),
                                            line_number |-> n]
        /\ file_text = ScenarioA =>
              references = <<[reference |-> "hr.employees", line_number |-> 1]>>

\* The dotted name begins with a word character, is not preceded by one of
\* " : = < > ! and has a schema or object part of two characters or more.
Anchored(line, d) ==
    /\ Char(line, d.s) \in WordChars
    /\ Char(line, d.s - 1) \notin {DQ, ":", "=", "<", ">", "!"}
    /\ (d.e1 - d.s + 1 >= 2 \/ d.e2 - d.e1 - 1 >= 2)

\* C8, amended: a dotted name followed by whitespace, ';' or '(' that begins
\* with a letter, digit or underscore, is not preceded by one of " : = < > !
\* and has a schema or object part of at least two characters is matched by
\* the tokenizer as one candidate whose text is the whole name, no candidate
\* starts inside it, and unless the classifier drops that candidate the line
\* has exactly one reference with that name (compared without case);
\* Scenario A yields exactly hr.employees at line 1.
C8_DottedNameMatchedWhole ==
    Done =>
        /\ \A n \in 1..Len(lines_no_comments) :
              LET line == lines_no_comments[n]
                  ms   == finditer(line, 1)
              IN  \A d \in DottedNames(line) :
                     Followed(line, d) /\ Anchored(line, d) =>
                        /\ \E j \in 1..Len(ms) :
                              /\ ms[j].start = d.s - 1
                              /\ ms[j].end = d.e
                              /\ ms[j].full_ref = NameOf(line, d)
                        /\ \A j \in 1..Len(ms) :
                              /\ ms[j].start \notin d.s..(d.e - 1)
                              /\ ms[j].start = d.s - 1 /\ ~Dropped(line, ms[j])
                                 => Cardinality(EntriesFor(upper(NameOf(line, d)), n)) = 1
        /\ file_text = ScenarioA =>
              references = <<[reference |-> "hr.employees", line_number |-> 1]>>

\* A name schema.object.member followed by ';' was reported whole.
C8_Witness ==
    /\ Done
    /\ \E n \in 1..Len(lines_no_comments) :
          LET line == lines_no_comments[n]
          IN  \E d \in DottedNames(line) :
                 /\ Followed(line, d) /\ Anchored(line, d)
                 /\ Cardinality({i \in d.s..d.e : Char(line, i) = "."}) = 2
                 /\ \E i \in 1..Len(references) :
                       references[i] = [reference   |-> NameOf(line, d),
                                        line_number |-> n]

\* C9 as stated: Scenario B reports real_table at line 2 and the column x at
\* line 2, and nothing from the commented first line.
C9_ScenarioBReportsColumn ==
    Done /\ file_text = ScenarioB =>
        /\ \E i \in 1..Len(references) :
              references[i] = [reference |-> "real_table", line_number |-> 2]
        /\ \E i \in 1..Len(references) :
              references[i] = [reference |-> "x", line_number |-> 2]
        /\ \A i \in 1..Len(references) : references[i].line_number # 1

\* C9, amended: Scenario B reports exactly one reference, real_table at
\* line 2; the one-character column x is not a candidate, and nothing of the
\* commented first line is reported.
C9_ScenarioBOnlyTable ==
    Done /\ file_text = ScenarioB =>
        references = <<[reference |-> "real_table", line_number |-> 2]>>

\* Scenario B was analysed and one reference returned.
C9_Witness == Done /\ file_text = ScenarioB /\ Len(references) = 1

\* The declaration shape of 4.2 read on the upper-cased line: a prefix
\* L_, G_, C_, P_, R_, T_ or V_, an identifier, white space, an optional
\* CONSTANT and a type.
DeclarationShape(line) ==
    DeclarationPattern(upper(line), {"L", "G", "C", "P", "R", "T", "V"})

\* C10: a comment-stripped line of the declaration shape is skipped, so no
\* reference carries its line number; Scenario C yields no reference.
C10_DeclarationLineSkipped ==
    Done =>
        /\ \A i \in 1..Len(references) :
              ~DeclarationShape(lines_no_comments[references[i].line_number])
        /\ file_text = ScenarioC => references = <<>>

\* C11: for a path that does not exist the function returns the empty list,
\* nothing is raised (neither caught nor passed to the caller) and open()
\* is never called.
C11_MissingFileYieldsEmpty ==
    ~file_exists =>
        /\ pc \in {"start", "done"}
        /\ exc = "none"
        /\ ~file_opened
        /\ references = <<>>

\* The call for a missing path has returned.
C11_Witness == pc = "done" /\ ~file_exists

\* C15: an exception raised while the file is read or scanned does not
\* reach the caller, and the function returns the empty list, also when
\* references of earlier lines were collected before.
C15_ExceptionYieldsEmpty ==
    exc = "Exception" =>
        /\ pc \in {"except", "done"}
        /\ pc = "done" => references = <<>>

\* The matches of line n the loop body is run on.
Candidates(n) ==
    LET line == lines_no_comments[n]
    IN  IF strip(line) = "" \/ DeclarationMatch(upper(line)) THEN <<>>
        ELSE finditer(line, 1)

\* The upper-cased texts of the references returned for line n.
ReportedKeys(n) ==
    {upper(references[i].reference) :
        i \in {k \in 1..Len(references) : references[k].line_number = n}}

\* C12: a candidate is kept if and only if none of the five drop rules
\* holds: the names reported for a line are those of its candidates for
\* which no rule holds, and the classifier drops exactly the others.
C12_KeptIffNoRuleHolds ==
    Done =>
        \A n \in 1..Len(lines_no_comments) :
            LET line == lines_no_comments[n]
                ms   == Candidates(n)
            IN  /\ \A j \in 1..Len(ms) :
                      Dropped(line, ms[j])
                          <=> \E r \in 1..5 : RuleHolds(r, line, ms[j])
                /\ ReportedKeys(n) =
                      {upper(ms[j].full_ref) :
                          j \in {k \in 1..Len(ms) :
                                    \A r \in 1..5 : ~RuleHolds(r, line, ms[k])}}

\* In one file each of the five rules was the one that dropped a candidate,
\* and a candidate was kept and reported.
C12_Witness ==
    /\ Done
    /\ \A r \in 0..5 :
          \E n \in 1..Len(lines_no_comments) :
             \E j \in 1..Len(Candidates(n)) :
                /\ FirstRule(RuleOrder, lines_no_comments[n],
                             Candidates(n)[j]) = r
                /\ r = 0 => upper(Candidates(n)[j].full_ref) \in ReportedKeys(n)
                /\ r # 0 => upper(Candidates(n)[j].full_ref) \notin ReportedKeys(n)

\* C13 as stated: with rule 3 evaluated before rule 1 a schema-qualified
\* reserved word (sys.dual) is dropped.
C13_Rule3FirstDropsQualified ==
    Done =>
        \A n \in 1..Len(lines_no_comments) :
            LET line == lines_no_comments[n]
                ms   == Candidates(n)
            IN  \A j \in 1..Len(ms) :
                   /\ ms[j].schema # ""
                   /\ upper(ms[j].schema) \notin PLSQL_KEYWORDS
                   /\ upper(ms[j].obj_name) \in PLSQL_KEYWORDS
                   => FirstRule(<<3, 1, 2, 4, 5>>, line, ms[j]) # 0

\* C13, amended: the order of evaluation does not affect the decision; with
\* rule 3 evaluated before rule 1 every candidate is kept or dropped as the
\* classifier does, and sys.dual is kept and reported under either order.
C13_RuleOrderIrrelevant ==
    Done =>
        \A n \in 1..Len(lines_no_comments) :
            LET line == lines_no_comments[n]
                ms   == Candidates(n)
            IN  \A j \in 1..Len(ms) :
                   /\ Dropped(line, ms[j])
                          <=> FirstRule(<<3, 1, 2, 4, 5>>, line, ms[j]) # 0
                   /\ (upper(ms[j].full_ref) = "SYS.DUAL"
                       /\ ~RuleHolds(4, line, ms[j]) /\ ~RuleHolds(5, line, ms[j]))
                      => /\ FirstRule(<<3, 1, 2, 4, 5>>, line, ms[j]) = 0
                         /\ "SYS.DUAL" \in ReportedKeys(n)

\* sys.dual was analysed beside a bare reserved word, and reported.
C13_Witness ==
    /\ Done
    /\ \E n \in 1..Len(lines_no_comments) :
          LET line == lines_no_comments[n]
              ms   == Candidates(n)
          IN  /\ "SYS.DUAL" \in ReportedKeys(n)
              /\ \E j \in 1..Len(ms) :
                    /\ FirstRule(RuleOrder, line, ms[j]) = 1
                    /\ FirstRule(<<3, 1, 2, 4, 5>>, line, ms[j]) = 3

\* C14: every match that passes the filters, and so every reference
\* returned, has an object name of at least two characters, all of
\* [A-Za-z0-9_$#], and a first character that is not preceded in the line
\* by ':', '=', '<', '>' or '!'; no reference is a single character.
C14_BaseIdentifierAndLookbehind ==
    Done =>
        /\ \A n \in 1..Len(lines_no_comments) :
              \A j \in 1..Len(Survivors(n)) :
                 LET m == Survivors(n)[j]
                 IN  /\ Len(m.obj_name) >= 2
                     /\ CharsOf(m.obj_name) \subseteq IdentChars
                     /\ Char(lines_no_comments[n], m.start)
                           \notin {":", "=", "<", ">", "!"}
        /\ \A i \in 1..Len(references) :
              /\ Len(references[i].reference) >= 2
              /\ \E j \in 1..Len(Survivors(references[i].line_number)) :
                    Survivors(references[i].line_number)[j].full_ref
                        = references[i].reference

\* A reference was returned from a line that also holds an identifier
\* behind one of the five characters, at which no candidate starts.
C14_Witness ==
    /\ Done
    /\ \E i \in 1..Len(references) :
          LET n    == references[i].line_number
              line == lines_no_comments[n]
          IN  \E p \in 2..(Len(line) - 1) :
                 /\ Char(line, p - 1) \in {":", "=", "<", ">", "!"}
                 /\ Char(line, p) \in WordChars
                 /\ Char(line, p + 1) \in WordChars
                 /\ \A j \in 1..Len(Candidates(n)) :
                       Candidates(n)[j].start # p - 1

----------------------------------------------------------------------------
(* Concurrent invocations of find_object_references_in_file, one per file. *)
(* calls[c] holds the locals of invocation c; a step of the model is one   *)
(* step of one invocation.                                                 *)

NumCalls == 2
Calls == 1..NumCalls

\* The files analysed concurrently.
ConcurrentTexts == {"ab AB\nab hr.ab", "hr.ab ab;\nab", ScenarioB}

\* The locals of an invocation at entry (line 109).
CallAtEntry(exists, text) ==
    [file_exists |-> exists, file_text |-> text, pc |-> "start",
     lines_no_comments |-> <<>>, line_num |-> 0,
     references |-> <<>>, found_references |-> {}]

\* The deduplication set over all invocations, as if it were shared.
FoundOfAll(c) == UNION {calls[d].found_references : d \in Calls}

\* Line 140: the deduplication set invocation c works with, a local.
FoundOf(c) == calls[c].found_references

\* Lines 109-112 in invocation c.
CallFileNotFound(c) ==
    /\ calls[c].pc = "start"
    /\ ~calls[c].file_exists
    /\ calls' = [calls EXCEPT ![c].pc = "done"]
    /\ UNCHANGED outside_concurrent

\* Lines 114-140 in invocation c.
CallReadAndStrip(c) ==
    /\ calls[c].pc = "start"
    /\ calls[c].file_exists
    /\ calls' = [calls EXCEPT
          ![c].lines_no_comments =
              splitlines(remove_comments(join(readlines(calls[c].file_text)))),
          ![c].found_references = {},
          ![c].pc = "loop"]
    /\ UNCHANGED outside_concurrent

\* Lines 142-202 in invocation c: one iteration of the loop over the lines.
CallScanLine(c) ==
    /\ calls[c].pc = "loop"
    /\ calls[c].line_num < Len(calls[c].lines_no_comments)
    /\ LET num  == calls[c].line_num + 1
           line == calls[c].lines_no_comments[num]
           old  == [refs |-> calls[c].references, found |-> FoundOf(c)]
           acc  == IF strip(line) = "" \/ DeclarationMatch(upper(line))
                   THEN old
                   ELSE ScanMatches(line, num, finditer(line, 1), old)
       IN  calls' = [calls EXCEPT
              ![c].line_num = num,
              ![c].references = acc.refs,
              ![c].found_references = acc.found]
    /\ UNCHANGED outside_concurrent

\* Line 217 in invocation c.
CallReturn(c) ==
    /\ calls[c].pc = "loop"
    /\ calls[c].line_num = Len(calls[c].lines_no_comments)
    /\ calls' = [calls EXCEPT ![c].pc = "done"]
    /\ UNCHANGED outside_concurrent

NextConcurrent ==
    \E c \in Calls :
        \/ CallFileNotFound(c)
        \/ CallReadAndStrip(c)
        \/ CallScanLine(c)
        \/ CallReturn(c)

\* Every invocation is at entry, each with a file of its own that exists or
\* not; no invocation is followed on its own.
InitConcurrent ==
    /\ calls \in [Calls -> {CallAtEntry(e, t) :
                               e \in BOOLEAN, t \in ConcurrentTexts}]
    /\ AnalyzerIdle
    /\ DetailsIdle
    /\ CompilerIdle
    /\ ClientIdle
    /\ BatchIdle

SpecConcurrent == InitConcurrent /\ [][NextConcurrent]_vars

\* The list an invocation returns for a text when it runs alone: the loop of
\* lines 142-202 from line n on.
RECURSIVE ScanFrom(_, _, _)
ScanFrom(lines, n, acc) ==
    IF n > Len(lines) THEN acc.refs
    ELSE ScanFrom(lines, n + 1,
             IF strip(lines[n]) = "" \/ DeclarationMatch(upper(lines[n]))
             THEN acc
             ELSE ScanMatches(lines[n], n, finditer(lines[n], 1), acc))

RunAlone(exists, text) ==
    IF ~exists THEN <<>>
    ELSE ScanFrom(splitlines(remove_comments(join(readlines(text)))), 1,
                  [refs |-> <<>>, found |-> {}])

\* C16: under every interleaving each concurrent invocation returns the list
\* it returns when it runs alone.
C16_CallsDoNotInterfere ==
    \A c \in Calls :
        calls[c].pc = "done" =>
            calls[c].references
                = RunAlone(calls[c].file_exists, calls[c].file_text)

\* One invocation has returned references while another one, on a file with
\* the same names, is in the middle of its loop with names recorded.
C16_Witness ==
    \E c, d \in Calls :
        /\ calls[c].pc = "done"
        /\ calls[c].references # <<>>
        /\ calls[d].pc = "loop"
        /\ calls[d].line_num \in 1..(Len(calls[d].lines_no_comments) - 1)
        /\ calls[d].found_references \cap calls[c].found_references # {}

----------------------------------------------------------------------------
(* db_connection.get_connection_details.  os.environ is a function from    *)
(* the names that are set to their values; os.getenv of a name that is not *)
(* set is None.                                                            *)

EnvNames == {"DB_USER", "DB_PASSWORD", "DB_TNS_ALIAS", "DB_DSN"}
EnvValues == {"", "v1", "v2"}

\* os.getenv(name)
getenv(name) ==
    IF name \in DOMAIN environ
    THEN [is_none |-> FALSE, value |-> environ[name]]
    ELSE [is_none |-> TRUE, value |-> ""]

\* "not x" of an Optional[str]: None and "" are falsy.
Falsy(x) == x.is_none \/ x.value = ""

\* The connection string with DB_DSN preferred to DB_TNS_ALIAS.
connection_string_dsn_first ==
    IF Falsy(getenv("DB_DSN")) THEN getenv("DB_TNS_ALIAS") ELSE getenv("DB_DSN")

\* Line 145: connection_string = tns_alias if tns_alias else dsn
connection_string ==
    IF Falsy(getenv("DB_TNS_ALIAS")) THEN getenv("DB_DSN")
    ELSE getenv("DB_TNS_ALIAS")

ValueError(message) ==
    [outcome |-> "ValueError", message |-> message,
     user |-> "", password |-> "", dsn |-> ""]

\* Lines 131-151: what get_connection_details raises or returns.
get_connection_details ==
    IF Falsy(getenv("DB_USER"))
    THEN ValueError("Missing required environment variable: DB_USER")
    ELSE IF getenv("DB_PASSWORD").is_none
    THEN ValueError("Missing required environment variable: DB_PASSWORD (set to empty string if intended)")
    ELSE IF Falsy(connection_string)
    THEN ValueError("Missing required environment variable: Set either DB_TNS_ALIAS or DB_DSN.")
    ELSE [outcome |-> "returned", message |-> "",
          user     |-> getenv("DB_USER").value,
          password |-> getenv("DB_PASSWORD").value,
          dsn      |-> connection_string.value]

\* The call of get_connection_details.
GetConnectionDetails ==
    /\ conn_vars.outcome = "called"
    /\ conn_vars' = get_connection_details
    /\ UNCHANGED environ
    /\ UNCHANGED outside_details

NextDetails == GetConnectionDetails

\* Any of the four variables is unset, empty or set to a value.
InitDetails ==
    /\ environ \in UNION {[names -> EnvValues] : names \in SUBSET EnvNames}
    /\ conn_vars = [outcome |-> "called", message |-> "",
                    user |-> "", password |-> "", dsn |-> ""]
    /\ AnalyzerIdle
    /\ ConcurrentIdle
    /\ CompilerIdle
    /\ ClientIdle
    /\ BatchIdle

SpecDetails == InitDetails /\ [][NextDetails]_vars

\* name is set and not empty
SetNonEmpty(name) == name \in DOMAIN environ /\ environ[name] # ""

----------------------------------------------------------------------------
(* compiler.extract_object_name_from_code: OBJECT_NAME_REGEX (lines 26-49, *)
(* compiled with IGNORECASE, VERBOSE and MULTILINE) and the fallback to    *)
(* the file name.                                                          *)

\* The literal word w at position p, in any letter case.
WordAt(text, p, w) == upper(Slice(text, p, p + Len(w) - 1)) = w

\* word1 \s+ word2 at position p: the position behind it, 0 if it is not
\* there.
TwoWordsEnd(text, p, w1, w2) ==
    LET q  == p + Len(w1)
        ws == RunLen(text, q, WhiteSpace)
    IN  IF WordAt(text, p, w1) /\ ws >= 1 /\ WordAt(text, q + ws, w2)
        THEN q + ws + Len(w2) ELSE 0

\* word at position p: the position behind it, 0 if it is not there.
WordEnd(text, p, w) == IF WordAt(text, p, w) THEN p + Len(w) ELSE 0

\* Group 1 (lines 30-36): the positions behind the alternatives at position
\* p, in the order in which the alternatives are tried (0: no match).
TypeEnds(text, p) ==
    << TwoWordsEnd(text, p, "PACKAGE", "BODY"),
       TwoWordsEnd(text, p, "TYPE", "BODY"),
       TwoWordsEnd(text, p, "PUBLIC", "SYNONYM"),
       WordEnd(text, p, "PACKAGE"),
       WordEnd(text, p, "FUNCTION"),
       WordEnd(text, p, "PROCEDURE"),
       WordEnd(text, p, "TYPE"),
       WordEnd(text, p, "VIEW"),
       WordEnd(text, p, "TRIGGER"),
       WordEnd(text, p, "SEQUENCE"),
       TwoWordsEnd(text, p, "MATERIALIZED", "VIEW"),
       WordEnd(text, p, "SYNONYM") >>

\* \"?([a-zA-Z0-9_$#]+)\"? at position p: the identifier captured and the
\* position behind the closing quote, if there is one ("" if no match).
NameAt(text, p) ==
    LET q   == IF Char(text, p) = DQ THEN p + 1 ELSE p
        run == RunLen(text, q, IdentChars)
    IN  [name |-> Slice(text, q, q + run - 1),
         end  |-> IF Char(text, q + run) = DQ THEN q + run + 1 ELSE q + run]

\* Lines 39-44 at position p: the optional schema with its dot, then the
\* object name (group 3); "" if there is no name.  The schema is tried
\* first, and given up when no dot and name follow it.
ObjectNameAt(text, p) ==
    LET first  == NameAt(text, p)
        second == NameAt(text, first.end + 1)
    IN  IF first.name # "" /\ Char(text, first.end) = "." /\ second.name # ""
        THEN second.name
        ELSE first.name

\* \s+ name at position p, p being behind the object type.
NameBehindType(text, p) ==
    IF p = 0 \/ RunLen(text, p, WhiteSpace) = 0 THEN ""
    ELSE ObjectNameAt(text, p + RunLen(text, p, WhiteSpace))

\* The first alternative of group 1, from the i-th on, behind which a name
\* follows: that name ("" if there is none).
RECURSIVE FirstTypedName(_, _, _)
FirstTypedName(text, ends, i) ==
    IF i > Len(ends) THEN ""
    ELSE IF NameBehindType(text, ends[i]) # ""
         THEN NameBehindType(text, ends[i])
    ELSE FirstTypedName(text, ends, i + 1)

\* \s+ (?:NONEDITIONABLE\s+)? type \s+ name at position p.
StatementRest(text, p) ==
    LET ws == RunLen(text, p, WhiteSpace)
        q  == p + ws
        r  == q + 14 + RunLen(text, q + 14, WhiteSpace)
        withWord == IF WordAt(text, q, "NONEDITIONABLE")
                       /\ RunLen(text, q + 14, WhiteSpace) >= 1
                    THEN FirstTypedName(text, TypeEnds(text, r), 1) ELSE ""
    IN  IF ws = 0 THEN ""
        ELSE IF withWord # "" THEN withWord
        ELSE FirstTypedName(text, TypeEnds(text, q), 1)

\* ^\s*CREATE(?:\s+OR\s+REPLACE)? and the rest, from the start of a line at
\* position s: group 3 of the match ("" if there is no match from s).
StatementAt(text, s) ==
    LET c  == s + RunLen(text, s, WhiteSpace)
        p  == c + 6
        w1 == RunLen(text, p, WhiteSpace)
        o  == p + w1
        w2 == RunLen(text, o + 2, WhiteSpace)
        r  == o + 2 + w2
        withOrReplace ==
            IF w1 >= 1 /\ WordAt(text, o, "OR") /\ w2 >= 1
               /\ WordAt(text, r, "REPLACE")
            THEN StatementRest(text, r + 7) ELSE ""
    IN  IF ~WordAt(text, c, "CREATE") THEN ""
        ELSE IF withOrReplace # "" THEN withOrReplace
        ELSE StatementRest(text, p)

\* OBJECT_NAME_REGEX.search(plsql_code): group 3 of the leftmost match,
\* "" if there is no match.  "^" holds at the start of the text and behind
\* each "\n".
RECURSIVE SearchFrom(_, _)
SearchFrom(text, s) ==
    IF s > Len(text) THEN ""
    ELSE IF (s = 1 \/ Char(text, s - 1) = NL) /\ StatementAt(text, s) # ""
         THEN StatementAt(text, s)
    ELSE SearchFrom(text, s + 1)

\* os.path.basename: the text behind the last "/".
RECURSIVE basename(_)
basename(file) ==
    IF Find(file, "/", 1) = 0 THEN file
    ELSE basename(From(file, Find(file, "/", 1) + 1))

\* The position of the last "." of a name, 0 if it has none.
RECURSIVE LastDot(_, _)
LastDot(name, i) ==
    IF i = 0 THEN 0
    ELSE IF Char(name, i) = "." THEN i
    ELSE LastDot(name, i - 1)

\* os.path.splitext(name)[0]: the name without its last extension; leading
\* dots do not start an extension.
splitext_root(name) ==
    LET dot   == LastDot(name, Len(name))
        leads == RunLen(name, 1, {"."})
    IN  IF dot > leads THEN Slice(name, 1, dot - 1) ELSE name

\* The prefixes of line 81, in the order of the alternation.
NamePrefixes ==
    <<"R__", "V__", "T__", "PKS__", "PKB__", "FNC__", "PRC__", "TRG__">>

\* re.sub(r'^(R__|...)', '', name, flags=re.IGNORECASE): the first
\* alternative, from the i-th on, that the name starts with is removed.
RECURSIVE RemovePrefix(_, _)
RemovePrefix(name, i) ==
    IF i > Len(NamePrefixes) THEN name
    ELSE IF WordAt(name, 1, NamePrefixes[i])
         THEN From(name, Len(NamePrefixes[i]) + 1)
    ELSE RemovePrefix(name, i + 1)

\* Lines 77-83: the fallback to the file name.
FileNameFallback(file) ==
    RemovePrefix(upper(splitext_root(basename(file))), 1)

\* Lines 64-86.
extract_object_name_from_code(code, file) ==
    IF SearchFrom(code, 1) # ""
    THEN upper(SearchFrom(code, 1))
    ELSE FileNameFallback(file)

\* A call of extract_object_name_from_code(plsql_code, file_path) on its
\* own: lines 64-86.
ExtractCall ==
    /\ cpc = "extract_called"
    /\ object_name' = extract_object_name_from_code(plsql_code, path)
    /\ cpc' = "extract_returned"
    /\ UNCHANGED <<connect_loaded, source, path, plsql_code, result, conn,
                   raised, plsql_warning, error_messages, db_calls>>
    /\ UNCHANGED outside_compiler

NextExtract == ExtractCall

\* The object types of OBJECT_NAME_REGEX, written with one space.
ObjectTypes ==
    {"PACKAGE BODY", "TYPE BODY", "PUBLIC SYNONYM", "PACKAGE", "FUNCTION",
     "PROCEDURE", "TYPE", "VIEW", "TRIGGER", "SEQUENCE", "MATERIALIZED VIEW",
     "SYNONYM"}

\* Object names as they are written in a statement, and the name each one
\* denotes: plain and quoted identifiers, the last one a quoted identifier
\* with a space in it.
WrittenNames ==
    {[written |-> "emp",           name |-> "emp"],
     [written |-> "e$1#",          name |-> "e$1#"],
     [written |-> "\"Emp_1\"",     name |-> "Emp_1"],
     [written |-> "\"my view\"",   name |-> "my view"]}

\* CREATE statements by their parts: one of each object type, with and
\* without OR REPLACE and NONEDITIONABLE ...
StatementsByType ==
    [lead : {""}, create : {"CREATE", "create"},
     or_replace : {"", " OR REPLACE"},
     noneditionable : {"", " NONEDITIONABLE"},
     type : ObjectTypes, schema : {""},
     name : {n \in WrittenNames : n.written = "emp"}, tail : {" AS"}]

\* ... and views of each written name, with and without a schema, behind
\* white space or a comment line, followed by nothing or by more text.
StatementsByName ==
    [lead : {"", "  ", "-- x\n"}, create : {"CREATE"},
     or_replace : {" or\nreplace"}, noneditionable : {""},
     type : {"VIEW"}, schema : {"", "hr.", "\"Hr\"."},
     name : WrittenNames,
     tail : {"", " AS SELECT 1 FROM dual", " FOR hr.t;"}]

Statements == StatementsByType \cup StatementsByName

\* The text of a statement.
Statement(s) ==
    s.lead \o s.create \o s.or_replace \o s.noneditionable \o " " \o s.type
    \o " " \o s.schema \o s.name.written \o s.tail

\* Two statements in one file.
StatementPairs ==
    {<<a, b>> \in StatementsByName \X StatementsByType :
        /\ a.lead = "" /\ a.schema = "hr." /\ a.tail = " FOR hr.t;"
        /\ a.name.written \in {"emp", "e$1#"}
        /\ b.create = "CREATE" /\ b.or_replace = "" /\ b.noneditionable = ""
        /\ b.type \in {"PACKAGE", "TRIGGER"}}

TwoStatements(pair) == Statement(pair[1]) \o NL \o Statement(pair[2])

\* Source texts without a CREATE statement of one of the object types.
NoStatement ==
    {"BEGIN NULL; END;", "SELECT 1 FROM dual", "CREATE TABLE t (a NUMBER)",
     "GRANT SELECT ON v TO hr", "DROP VIEW v"}

ExtractCodes ==
    {Statement(s) : s \in Statements}
    \cup {TwoStatements(pair) : pair \in StatementPairs}
    \cup NoStatement

\* File paths, and for each the upper-cased stem of its file name without
\* one leading prefix.
FileNames ==
    {[file |-> "a.sql",                      stem |-> "A"],
     [file |-> "/p/to/V__my_view.vw",        stem |-> "MY_VIEW"],
     [file |-> "R__R__x.sql",                stem |-> "R__X"],
     [file |-> "db/pks__pkg.pks",            stem |-> "PKG"],
     [file |-> "complex.name.with.dots.sql", stem |-> "COMPLEX.NAME.WITH.DOTS"],
     [file |-> "T_x.sql",                    stem |-> "T_X"]}

InitExtract ==
    /\ cpc = "extract_called"
    /\ plsql_code \in ExtractCodes
    /\ path \in {f.file : f \in FileNames}
    /\ object_name = None
    /\ connect_loaded = FALSE
    /\ source = [exists |-> FALSE, readable |-> FALSE, text |-> ""]
    /\ result = [status |-> None, object_name |-> None,
                 messages |-> <<>>, file_path |-> ""]
    /\ conn = None
    /\ raised = "none"
    /\ plsql_warning = FALSE
    /\ error_messages = <<>>
    /\ db_calls = [connect |-> 0, execute |-> 0, commit |-> 0, close |-> 0]
    /\ AnalyzerIdle
    /\ ConcurrentIdle
    /\ DetailsIdle
    /\ ClientIdle
    /\ BatchIdle

SpecExtract == InitExtract /\ [][NextExtract]_vars

\* C19: extract_object_name_from_code returns the upper-cased object name of
\* the first CREATE [OR REPLACE] <object type> statement, without its schema
\* and without double quotes; when the text has no such statement it
\* returns the upper-cased stem of the file name without one leading prefix.
C19_NameOfFirstStatementElseStem ==
    cpc = "extract_returned" =>
        /\ \A s \in Statements :
              plsql_code = Statement(s) => object_name = upper(s.name.name)
        /\ \A pair \in StatementPairs :
              plsql_code = TwoStatements(pair)
              => object_name = upper(pair[1].name.name)
        /\ plsql_code \in NoStatement
              => \E f \in FileNames : f.file = path /\ object_name = f.stem

----------------------------------------------------------------------------
(* compiler.compile_object (lines 89-307), one call of it.  Init is the    *)
(* state behind line 108.  What the file system, connect() and the driver  *)
(* answer is chosen in the step that asks them; their failures are the     *)
(* exceptions these operations raise, all of class Exception.              *)

MaxSourceFrags == 3
MaxRows == 2

\* The lines of a list that are not a slash on its own (line 151, the
\* generator expression).
DropSlashLinesKept(lines) == lines

RECURSIVE DropSlashLines(_)
DropSlashLines(lines) ==
    IF lines = <<>> THEN <<>>
    ELSE IF strip(Head(lines)) # "/"
         THEN <<Head(lines)>> \o DropSlashLines(Tail(lines))
    ELSE DropSlashLines(Tail(lines))

\* "\n".join(lines)
RECURSIVE join_lines(_)
join_lines(lines) ==
    IF lines = <<>> THEN ""
    ELSE IF Len(lines) = 1 THEN Head(lines)
    ELSE Head(lines) \o NL \o join_lines(Tail(lines))

\* Line 151.
StripSlashLines(text) == strip(join_lines(DropSlashLines(splitlines(text))))

\* The return statements of lines 112-116, 141-144, 156-159, 162-165 and
\* 167-170: a status and one message.
ReturnEarly(status, message) ==
    /\ result' = [result EXCEPT !.status = status, !.messages = <<message>>]
    /\ cpc' = "returned"
    /\ UNCHANGED <<connect_loaded, source, path, plsql_code, object_name,
                   conn, raised, plsql_warning, error_messages, db_calls>>
    /\ UNCHANGED outside_compiler

\* Lines 112-116: the import of connect failed.
NoConnectionModule ==
    /\ cpc = "start"
    /\ ~connect_loaded
    /\ ReturnEarly("no_connection_module",
                   "Database connection module not loaded.")

\* Lines 118-170: the file is read and its slash lines are dropped.  open()
\* raises FileNotFoundError for a missing file and another exception for a
\* file that cannot be read.
ReadFile ==
    /\ cpc = "start"
    /\ connect_loaded
    /\ IF ~source.exists
       THEN ReturnEarly("error_reading_file",
                        "File not found: '" \o path \o "'")
       ELSE IF ~source.readable
       THEN ReturnEarly("error_reading_file",
                        "Error reading or decoding file '" \o path \o "'")
       ELSE IF source.text = ""
       THEN ReturnEarly("error_reading_file",
                        "File '" \o path \o "' is empty.")
       ELSE IF StripSlashLines(source.text) = ""
       THEN ReturnEarly("error_reading_file",
                        "File '" \o path \o "' contains no executable code (or only '/' lines).")
       ELSE /\ plsql_code' = StripSlashLines(source.text)
            /\ cpc' = "extract"
            /\ UNCHANGED <<connect_loaded, source, path, object_name, result,
                           conn, raised, plsql_warning, error_messages,
                           db_calls>>
            /\ UNCHANGED outside_compiler

\* Lines 172-177.
ExtractObjectName ==
    /\ cpc = "extract"
    /\ object_name' = extract_object_name_from_code(plsql_code, path)
    /\ result' = [result EXCEPT !.object_name = object_name']
    /\ cpc' = "connect"
    /\ UNCHANGED <<connect_loaded, source, path, plsql_code, conn, raised,
                   plsql_warning, error_messages, db_calls>>
    /\ UNCHANGED outside_compiler

\* What a call of connect() can end in: a connection, None, or one of the
\* exceptions db_connection.connect raises.
ConnectOutcomes ==
    {"connection", "None", "DatabaseError", "ValueError", "RuntimeError"}

\* What a call on the connection or its cursor can end in.
CallOutcomes == {"ok", "DatabaseError", "Exception"}

\* An exception leaves the try block of lines 182-263.
Raise(kind) ==
    /\ raised' = kind
    /\ cpc' = "except"

\* Lines 181-186.
Connect ==
    /\ cpc = "connect"
    /\ db_calls' = [db_calls EXCEPT !.connect = @ + 1]
    /\ \E outcome \in ConnectOutcomes :
          IF outcome = "connection"
          THEN conn' = "open" /\ cpc' = "execute" /\ UNCHANGED raised
          ELSE IF outcome = "None"
          THEN Raise("ConnectionError") /\ UNCHANGED conn
          ELSE Raise(outcome) /\ UNCHANGED conn
    /\ UNCHANGED <<connect_loaded, source, path, plsql_code, object_name,
                   result, plsql_warning, error_messages>>
    /\ UNCHANGED outside_compiler

\* Lines 188-195: cursor.execute(plsql_code).
Execute ==
    /\ cpc = "execute"
    /\ db_calls' = [db_calls EXCEPT !.execute = @ + 1]
    /\ \E outcome \in CallOutcomes :
          IF outcome = "ok"
          THEN cpc' = "warning" /\ UNCHANGED raised
          ELSE Raise(outcome)
    /\ UNCHANGED <<connect_loaded, source, path, plsql_code, object_name,
                   result, conn, plsql_warning, error_messages>>
    /\ UNCHANGED outside_compiler

\* What cursor.warning can be: nothing, a warning with code 'DPY-7000',
\* a warning with another code, or no such attribute.
Warnings == {"none", "DPY-7000", "other", "AttributeError"}

\* Lines 197-209.
CheckWarning ==
    /\ cpc = "warning"
    /\ \E w \in Warnings : plsql_warning' = (w = "DPY-7000")
    /\ cpc' = "user_errors"
    /\ UNCHANGED <<connect_loaded, source, path, plsql_code, object_name,
                   result, conn, raised, error_messages, db_calls>>
    /\ UNCHANGED outside_compiler

\* The values of the column ATTRIBUTE of USER_ERRORS.
Attributes == {"ERROR", "WARNING"}

\* Lines 228-230: the message made of one row.
RowMessage(attr) ==
    (IF attr = "ERROR" THEN "Error" ELSE "Warning (" \o attr \o ")")
    \o " at Line 1, Pos 1: PLS-00103 (ORA-00103)"

\* The messages of the rows fetched.
RowMessages(rows) == [i \in 1..Len(rows) |-> RowMessage(rows[i])]

\* if object_name: (line 214)
Truthy(name) == name # None /\ name # ""

\* Lines 213-236: the rows of USER_ERRORS for the object.  The query can
\* fail behind any number of rows; a DatabaseError is logged and the rows
\* fetched are kept (lines 231-233), another exception leaves the block.
QueryUserErrors ==
    /\ cpc = "user_errors"
    /\ IF Truthy(object_name)
       THEN /\ db_calls' = [db_calls EXCEPT !.execute = @ + 1]
            /\ \E rows \in UNION {[1..k -> Attributes] : k \in 0..MaxRows},
                  outcome \in CallOutcomes :
                  /\ error_messages' = RowMessages(rows)
                  /\ IF outcome = "Exception"
                     THEN Raise(outcome)
                     ELSE cpc' = "status" /\ UNCHANGED raised
       ELSE /\ error_messages' = <<>>
            /\ cpc' = "status"
            /\ UNCHANGED <<raised, db_calls>>
    /\ UNCHANGED <<connect_loaded, source, path, plsql_code, object_name,
                   result, conn, plsql_warning>>
    /\ UNCHANGED outside_compiler

\* any(text in msg for msg in error_messages)
AnyMessageHolds(text, messages) ==
    \E i \in 1..Len(messages) : Find(messages[i], text, 1) # 0

\* The status is set and the function returns without a commit.
CommitSkipped == cpc' = "finally" /\ UNCHANGED <<raised, db_calls>>

\* conn.commit() (lines 255 and 261), behind which the with block ends and
\* line 263 returns.
Commit ==
    /\ db_calls' = [db_calls EXCEPT !.commit = @ + 1]
    /\ \E outcome \in CallOutcomes :
          IF outcome = "ok"
          THEN cpc' = "finally" /\ UNCHANGED raised
          ELSE Raise(outcome)

\* Lines 239-263.
DetermineStatus ==
    /\ cpc = "status"
    /\ IF AnyMessageHolds("Error at Line", error_messages)
       THEN /\ result' = [result EXCEPT !.status = "failed",
                                        !.messages = error_messages]
            /\ cpc' = "finally"
            /\ UNCHANGED <<raised, db_calls>>
       ELSE IF plsql_warning
               \/ AnyMessageHolds("Warning at Line", error_messages)
       THEN /\ result' = [result EXCEPT
                  !.status = "success_with_warnings",
                  !.messages = (IF plsql_warning
                                THEN <<"Driver Warning: DPY-7000">>
                                ELSE <<>>) \o error_messages]
            /\ Commit
       ELSE /\ result' = [result EXCEPT
                  !.status = "success",
                  !.messages = <<"Compilation successful for "
                                 \o object_name \o ".">>]
            /\ Commit
    /\ UNCHANGED <<connect_loaded, source, path, plsql_code, object_name,
                   conn, plsql_warning, error_messages>>
    /\ UNCHANGED outside_compiler

\* The status the except clause catching the exception sets, with the
\* clause of line 293 leaving the status alone.
HandlerStatusUnset(kind) ==
    CASE kind = "DatabaseError"   -> "error_compiling"
      [] kind = "ConnectionError" -> "error_connecting"
      [] OTHER                    -> None

\* The status the except clause catching the exception sets: line 265
\* catches DatabaseError, line 288 ConnectionError, line 293 the others.
HandlerStatus(kind) ==
    CASE kind = "DatabaseError"   -> "error_compiling"
      [] kind = "ConnectionError" -> "error_connecting"
      [] OTHER                    -> "error_compiling"

\* Lines 265-299: the except clause sets the status and one message, and
\* returns the result.
HandleError ==
    /\ cpc = "except"
    /\ result' = [result EXCEPT
          !.status = HandlerStatus(raised),
          !.messages = <<(CASE raised = "DatabaseError"
                                 -> "Database error during compilation: "
                            [] raised = "ConnectionError"
                                 -> "Connection error: "
                            [] OTHER
                                 -> "Unexpected error during compilation of '"
                                    \o path \o "': ") \o raised>>]
    /\ raised' = "none"
    /\ cpc' = "finally"
    /\ UNCHANGED <<connect_loaded, source, path, plsql_code, object_name,
                   conn, plsql_warning, error_messages, db_calls>>
    /\ UNCHANGED outside_compiler

\* The function returns without closing the connection.
FinallyNoClose ==
    /\ cpc = "finally"
    /\ cpc' = "returned"
    /\ UNCHANGED <<connect_loaded, source, path, plsql_code, object_name,
                   result, conn, raised, plsql_warning, error_messages,
                   db_calls>>
    /\ UNCHANGED outside_compiler

\* Lines 300-307: the connection is closed if there is one; an exception of
\* close() is logged and dropped.  Then the function returns.
Finally ==
    /\ cpc = "finally"
    /\ IF conn = "open"
       THEN /\ db_calls' = [db_calls EXCEPT !.close = @ + 1]
            /\ \E outcome \in {"ok", "Exception"} :
                  conn' = IF outcome = "ok" THEN "closed" ELSE "open"
       ELSE UNCHANGED <<conn, db_calls>>
    /\ cpc' = "returned"
    /\ UNCHANGED <<connect_loaded, source, path, plsql_code, object_name,
                   result, raised, plsql_warning, error_messages>>
    /\ UNCHANGED outside_compiler

NextCompile ==
    \/ NoConnectionModule
    \/ ReadFile
    \/ ExtractObjectName
    \/ Connect
    \/ Execute
    \/ CheckWarning
    \/ QueryUserErrors
    \/ DetermineStatus
    \/ HandleError
    \/ Finally

\* A slash, a blank, a line break and a statement.
SourceFragments == {"/", " ", NL, "x;"}

\* Files with a CREATE statement and a slash line, and one without.
SampleSources ==
    {"CREATE OR REPLACE VIEW hr.emp_v AS\nSELECT 1 FROM dual\n/\n",
     " / \nBEGIN NULL; END;\n/"}

\* A missing file, a file that cannot be read, and the files of each text.
Sources ==
    {[exists |-> FALSE, readable |-> FALSE, text |-> ""],
     [exists |-> TRUE, readable |-> FALSE, text |-> ""]}
    \cup {[exists |-> TRUE, readable |-> TRUE, text |-> t] :
             t \in Texts(SourceFragments, MaxSourceFrags) \cup SampleSources}

\* File paths: one with a prefix, one of which the prefix is all the stem.
SourcePaths == {"db/V__emp_v.sql", "R__.sql"}

InitCompile ==
    /\ connect_loaded \in BOOLEAN
    /\ source \in Sources
    /\ path \in SourcePaths
    /\ cpc = "start"
    /\ plsql_code = ""
    /\ object_name = None
    /\ result = [status |-> None, object_name |-> None,
                 messages |-> <<>>, file_path |-> path]
    /\ conn = None
    /\ raised = "none"
    /\ plsql_warning = FALSE
    /\ error_messages = <<>>
    /\ db_calls = [connect |-> 0, execute |-> 0, commit |-> 0, close |-> 0]
    /\ AnalyzerIdle
    /\ ConcurrentIdle
    /\ DetailsIdle
    /\ ClientIdle
    /\ BatchIdle

SpecCompile == InitCompile /\ [][NextCompile]_vars

\* Two slashes of the text stand on one line.
TwoSlashesOnALine(text) ==
    \E i, j \in 1..Len(text) :
        /\ i < j
        /\ Char(text, i) = "/"
        /\ Char(text, j) = "/"
        /\ \A k \in i..j : Char(text, k) # NL

\* The text holds only blank lines and lines with just a slash.
OnlyBlankAndSlashLines(text) ==
    /\ CharsOf(text) \subseteq {" ", "\t", NL, "/"}
    /\ ~TwoSlashesOnALine(text)

\* The file yields no executable source: it does not exist, is empty, or
\* holds only blank lines and slash lines.
NoExecutableSource ==
    \/ ~source.exists
    \/ source.readable /\ OnlyBlankAndSlashLines(source.text)

\* compile_object is running or has returned.
InCompile == cpc \notin {"idle", "extract_called", "extract_returned"}

ReadErrorReturned ==
    /\ result.status = "error_reading_file"
    /\ result.object_name = None
    /\ result.file_path = path

\* C17 as stated: when the file yields no executable source, compile_object
\* returns 'error_reading_file' with object_name None and the original
\* file_path, and connect() is never called.
C17_NoSourceIsReadError ==
    (InCompile /\ NoExecutableSource) =>
        /\ db_calls.connect = 0
        /\ cpc = "returned" => ReadErrorReturned

\* C17: when the connect function was loaded and the file yields no
\* executable source, compile_object returns 'error_reading_file' with
\* object_name None and the original file_path, and connect() is never
\* called; when the connect function was not loaded it returns
\* 'no_connection_module' whatever the file holds, without calling connect().
C17_NoSourceIsReadErrorIfLoaded ==
    /\ (InCompile /\ connect_loaded /\ NoExecutableSource) =>
          /\ db_calls.connect = 0
          /\ cpc = "returned" => ReadErrorReturned
    /\ (InCompile /\ ~connect_loaded) =>
          /\ db_calls.connect = 0
          /\ cpc = "returned" => /\ result.status = "no_connection_module"
                                 /\ result.object_name = None
                                 /\ result.file_path = path

\* A file of a blank line and a slash line was given and the call returned.
C17_Witness ==
    /\ cpc = "returned"
    /\ connect_loaded
    /\ source.exists /\ source.readable
    /\ source.text = " \n/"
    /\ ReadErrorReturned
    /\ db_calls.connect = 0

Statuses ==
    {"success", "success_with_warnings", "failed", "error_reading_file",
     "error_connecting", "error_compiling", "no_connection_module"}

\* C18: compile_object never raises to its caller: an exception in flight
\* is always met by an except clause, and the result returned has one of
\* the seven statuses, never None.
C18_NeverRaisesStatusSet ==
    InCompile =>
        /\ raised # "none" => cpc = "except"
        /\ cpc = "returned" => result.status \in Statuses

\* commit() raised in a compilation that had succeeded, close() raised
\* too, and the call returned.
C18_Witness ==
    /\ cpc = "returned"
    /\ db_calls.commit = 1
    /\ result.status = "error_compiling"
    /\ db_calls.close = 1
    /\ conn = "open"

----------------------------------------------------------------------------
(* db_connection.init_oracle_client_if_needed (lines 49-115) and           *)
(* db_connection.connect (lines 154-209).  A thread is followed statement  *)
(* by statement where the statement reads or writes a module global or     *)
(* calls the driver; another thread can run between any two of these.      *)

MaxCalls == 3
NumThreads == 2

\* Line 63: the flag is set and the call is not forced.
AlreadyInitializedIgnored(force) == FALSE

AlreadyInitialized(force) == oracle_client_initialized /\ ~force

\* Line 67: an error is stored and the call is not forced.
PreviouslyFailedIgnored(force) == FALSE

PreviouslyFailed(force) == initialization_error # None /\ ~force

\* Thread t moves on: the fields of its record named in change are set.
Move(t, change) ==
    threads' = [threads EXCEPT ![t] =
                   [f \in DOMAIN threads[t] |->
                       IF f \in DOMAIN change THEN change[f] ELSE threads[t][f]]]

\* A thread is between two calls.
Free(t) == threads[t].pc \in {"idle", "returned", "raised"} /\ threads[t].left > 0

\* A key of a dictionary: absent (or None), or a string.
Absent == [is_none |-> TRUE, value |-> ""]

Present(value) == [is_none |-> FALSE, value |-> value]

\* A dictionary with the keys user, password and dsn, or some of them.
Dict(kind, user, password, dsn) ==
    [kind |-> kind, user |-> user, password |-> password, dsn |-> dsn]

NoDetails == Dict("None", Absent, Absent, Absent)

\* The arguments connect() is given: None, an empty dictionary, or a
\* dictionary with some of the keys user, password and dsn.
ConnectionDetails ==
    {NoDetails,
     Dict("empty", Absent, Absent, Absent),
     Dict("dict", Present("u"), Present(""), Present("d")),
     Dict("dict", Present(""), Present("p"), Present("d")),
     Dict("dict", Present("u"), Absent, Present("d")),
     Dict("dict", Present("u"), Present("p"), Present(""))}

\* "if connection_details:" (line 180): None and {} are falsy.
Provided(details) == details.kind = "dict"

\* conn_vars.get(key)
Get(details, key) == details[key]

\* Details that are not looked at.
CompleteUnchecked(details) == TRUE

\* Line 188 negated: user and dsn are not empty, password is not None.
Complete(details) ==
    /\ ~Falsy(Get(details, "user"))
    /\ ~Get(details, "password").is_none
    /\ ~Falsy(Get(details, "dsn"))

\* Line 185: the dictionary get_connection_details returns.
DetailsFromEnvironment ==
    Dict("dict", Present(get_connection_details.user),
         Present(get_connection_details.password),
         Present(get_connection_details.dsn))

\* A call of init_oracle_client_if_needed(force_reinit) begins.
StartInit(t, force) ==
    /\ Free(t)
    /\ Move(t, [pc |-> "check", fn |-> "init", force |-> force,
                details |-> NoDetails, conn_vars |-> NoDetails, outcome |-> "",
                left |-> threads[t].left - 1, inits |-> 0, connects |-> 0,
                forced |-> threads[t].forced + IF force THEN 1 ELSE 0])
    /\ UNCHANGED <<oracle_client_initialized, initialization_error, lib_calls>>
    /\ UNCHANGED outside_client

\* A call of connect(connection_details) begins: line 177 calls
\* init_oracle_client_if_needed().
StartConnect(t) ==
    /\ Free(t)
    /\ \E details \in ConnectionDetails :
          Move(t, [pc |-> "check", fn |-> "connect", force |-> FALSE,
                   details |-> details, conn_vars |-> NoDetails, outcome |-> "",
                   left |-> threads[t].left - 1, inits |-> 0, connects |-> 0])
    /\ UNCHANGED <<oracle_client_initialized, initialization_error, lib_calls>>
    /\ UNCHANGED outside_client

\* init_oracle_client_if_needed returns: to its caller, or into connect.
InitReturns(t) ==
    IF threads[t].fn = "init"
    THEN Move(t, [pc |-> "returned", outcome |-> "None"])
    ELSE Move(t, [pc |-> "details"])

\* Lines 63-66.
CheckInitialized(t) ==
    /\ threads[t].pc = "check"
    /\ IF AlreadyInitialized(threads[t].force)
       THEN InitReturns(t)
       ELSE Move(t, [pc |-> "check_error"])
    /\ UNCHANGED <<oracle_client_initialized, initialization_error, lib_calls>>
    /\ UNCHANGED outside_client

\* Lines 67-68.  connect() catches the RuntimeError and raises it again
\* (lines 202-205).
CheckError(t) ==
    /\ threads[t].pc = "check_error"
    /\ IF PreviouslyFailed(threads[t].force)
       THEN Move(t, [pc |-> "raised",
                     outcome |-> "RuntimeError: previously failed"])
       ELSE Move(t, [pc |-> IF threads[t].force THEN "reset_flag"
                            ELSE "call_init"])
    /\ UNCHANGED <<oracle_client_initialized, initialization_error, lib_calls>>
    /\ UNCHANGED outside_client

\* Line 72.
ResetFlag(t) ==
    /\ threads[t].pc = "reset_flag"
    /\ oracle_client_initialized' = FALSE
    /\ Move(t, [pc |-> "reset_error"])
    /\ UNCHANGED <<initialization_error, lib_calls>>
    /\ UNCHANGED outside_client

\* Line 73.
ResetError(t) ==
    /\ threads[t].pc = "reset_error"
    /\ initialization_error' = None
    /\ Move(t, [pc |-> "call_init"])
    /\ UNCHANGED <<oracle_client_initialized, lib_calls>>
    /\ UNCHANGED outside_client

\* Lines 76-101: oracledb.init_oracle_client is called; it returns or
\* raises.
CallInit(t) ==
    /\ threads[t].pc = "call_init"
    /\ \E ok \in BOOLEAN :
          /\ lib_calls' = [lib_calls EXCEPT
                              !.init = @ + 1,
                              !.init_ok = IF ok THEN @ + 1 ELSE @]
          /\ Move(t, [pc |-> IF ok THEN "set_flag" ELSE "set_error",
                      inits |-> threads[t].inits + 1])
    /\ UNCHANGED <<oracle_client_initialized, initialization_error>>
    /\ UNCHANGED outside_client

\* Line 104.
SetFlag(t) ==
    /\ threads[t].pc = "set_flag"
    /\ oracle_client_initialized' = TRUE
    /\ Move(t, [pc |-> "clear_error"])
    /\ UNCHANGED <<initialization_error, lib_calls>>
    /\ UNCHANGED outside_client

\* Lines 105-106, after which the function returns.
ClearError(t) ==
    /\ threads[t].pc = "clear_error"
    /\ initialization_error' = None
    /\ InitReturns(t)
    /\ UNCHANGED <<oracle_client_initialized, lib_calls>>
    /\ UNCHANGED outside_client

\* Line 110.
SetError(t) ==
    /\ threads[t].pc = "set_error"
    /\ initialization_error' = "Error"
    /\ Move(t, [pc |-> "clear_flag"])
    /\ UNCHANGED <<oracle_client_initialized, lib_calls>>
    /\ UNCHANGED outside_client

\* Lines 111-115.  connect() catches the RuntimeError and raises it again
\* (lines 202-205).
ClearFlagAndRaise(t) ==
    /\ threads[t].pc = "clear_flag"
    /\ oracle_client_initialized' = FALSE
    /\ Move(t, [pc |-> "raised",
                outcome |-> "RuntimeError: during attempt"])
    /\ UNCHANGED <<initialization_error, lib_calls>>
    /\ UNCHANGED outside_client

\* Lines 180-189 of connect: the details given or those of the environment.
\* The ValueError is raised again by lines 202-205.
GetDetails(t) ==
    /\ threads[t].pc = "details"
    /\ IF Provided(threads[t].details)
       THEN IF Complete(threads[t].details)
            THEN Move(t, [pc |-> "db_connect",
                          conn_vars |-> threads[t].details])
            ELSE Move(t, [pc |-> "raised", conn_vars |-> threads[t].details,
                          outcome |-> "ValueError"])
       ELSE IF get_connection_details.outcome = "returned"
               /\ Complete(DetailsFromEnvironment)
            THEN Move(t, [pc |-> "db_connect",
                          conn_vars |-> DetailsFromEnvironment])
            ELSE Move(t, [pc |-> "raised", outcome |-> "ValueError"])
    /\ UNCHANGED <<oracle_client_initialized, initialization_error, lib_calls>>
    /\ UNCHANGED outside_client

\* What oracledb.connect(**conn_vars), and the reading of the connection's
\* version behind it, end in.
DriverOutcomes == {"connection", "DatabaseError", "Exception"}

\* Lines 194-209: a connection is returned, a DatabaseError is raised
\* again, another exception is raised as a RuntimeError.
DbConnect(t) ==
    /\ threads[t].pc = "db_connect"
    /\ lib_calls' = [lib_calls EXCEPT !.connect = @ + 1]
    /\ \E outcome \in DriverOutcomes :
          Move(t, [pc |-> IF outcome = "connection" THEN "returned"
                          ELSE "raised",
                   outcome |-> IF outcome = "Exception"
                               THEN "RuntimeError: unexpected"
                               ELSE outcome,
                   connects |-> threads[t].connects + 1])
    /\ UNCHANGED <<oracle_client_initialized, initialization_error>>
    /\ UNCHANGED outside_client

\* The steps of a call in progress.
Step(t) ==
    \/ CheckInitialized(t)
    \/ CheckError(t)
    \/ ResetFlag(t)
    \/ ResetError(t)
    \/ CallInit(t)
    \/ SetFlag(t)
    \/ ClearError(t)
    \/ SetError(t)
    \/ ClearFlagAndRaise(t)
    \/ GetDetails(t)
    \/ DbConnect(t)

\* One caller making calls one after the other, forced ones among them.
NextClient ==
    \E t \in DOMAIN threads :
        \/ \E force \in BOOLEAN : StartInit(t, force)
        \/ StartConnect(t)
        \/ Step(t)

\* Several threads, each making one call that is not forced.
NextThreads ==
    \E t \in DOMAIN threads :
        \/ StartInit(t, FALSE)
        \/ StartConnect(t)
        \/ Step(t)

\* A thread that has not called yet and can make n calls.
NewThread(n) ==
    [pc |-> "idle", fn |-> "", force |-> FALSE, details |-> NoDetails,
     conn_vars |-> NoDetails, outcome |-> "", left |-> n, inits |-> 0,
     connects |-> 0, forced |-> 0]

\* The environment: complete, or without DB_USER.
ClientEnvironments ==
    {[DB_USER |-> "v1", DB_PASSWORD |-> "", DB_DSN |-> "v2"],
     [DB_PASSWORD |-> "v1", DB_TNS_ALIAS |-> "v2"]}

\* The module has just been imported (lines 37-38).
InitGlobals ==
    /\ oracle_client_initialized = FALSE
    /\ initialization_error = None
    /\ lib_calls = [init |-> 0, init_ok |-> 0, connect |-> 0]
    /\ environ \in ClientEnvironments
    /\ conn_vars = [outcome |-> "idle", message |-> "",
                    user |-> "", password |-> "", dsn |-> ""]
    /\ AnalyzerIdle
    /\ ConcurrentIdle
    /\ CompilerIdle
    /\ BatchIdle

InitClient ==
    /\ threads = [t \in 1..1 |-> NewThread(MaxCalls)]
    /\ InitGlobals

InitThreads ==
    /\ threads = [t \in 1..NumThreads |-> NewThread(1)]
    /\ InitGlobals

SpecClient == InitClient /\ [][NextClient]_vars

SpecThreads == InitThreads /\ [][NextThreads]_vars

----------------------------------------------------------------------------
(* Claims about the client initialisation and connect().                   *)

\* The call of thread t has ended.
Ended(t) == threads[t].pc \in {"returned", "raised"}

\* In the call of thread t, init_oracle_client_if_needed has returned.
InitReturned(t) ==
    \/ threads[t].fn = "init" /\ threads[t].pc = "returned"
    \/ threads[t].fn = "connect"
       /\ \/ threads[t].pc \in {"details", "db_connect", "returned"}
          \/ threads[t].pc = "raised"
             /\ threads[t].outcome \in
                    {"ValueError", "DatabaseError", "RuntimeError: unexpected"}

C21_StateAfterSuccess ==
    \A t \in DOMAIN threads :
        InitReturned(t) =>
            oracle_client_initialized /\ initialization_error = None

C21_NoCallWhenInitialized ==
    \A t \in DOMAIN threads :
        (oracle_client_initialized /\ ~threads[t].force
         /\ threads[t].pc \in {"check", "check_error", "call_init"}) =>
            /\ lib_calls' = lib_calls
            /\ oracle_client_initialized'
            /\ threads'[t].pc \in {"returned", "details"}

C21_OneSuccessUnforced ==
    \A t \in DOMAIN threads :
        threads[t].forced = 0 => lib_calls.init_ok <= 1

\* C21: once init_oracle_client_if_needed has returned, the flag is True and
\* no error is stored; a call that is not forced and finds the flag True
\* returns without calling oracledb.init_oracle_client and leaves the flag
\* True; as long as no call was forced, oracledb.init_oracle_client has
\* succeeded at most once.
C21_InitializedOnce ==
    /\ [](C21_StateAfterSuccess /\ C21_OneSuccessUnforced)
    /\ [][C21_NoCallWhenInitialized]_vars

\* The third of three unforced calls has returned without a call of
\* oracledb.init_oracle_client; the first one called it, with success.
C21_Witness ==
    \E t \in DOMAIN threads :
        /\ threads[t].pc = "returned"
        /\ threads[t].forced = 0
        /\ threads[t].left <= MaxCalls - 3
        /\ threads[t].inits = 0
        /\ lib_calls.init = 1
        /\ lib_calls.init_ok = 1

C22_NeverBoth == ~(oracle_client_initialized /\ initialization_error # None)

C22_StateAfterFailure ==
    \A t \in DOMAIN threads :
        /\ (threads[t].pc = "raised"
            /\ threads[t].outcome = "RuntimeError: during attempt") =>
               /\ ~oracle_client_initialized
               /\ initialization_error # None
               /\ threads[t].inits = 1
        /\ (threads[t].pc = "raised"
            /\ threads[t].outcome = "RuntimeError: previously failed") =>
               /\ ~oracle_client_initialized
               /\ initialization_error # None
               /\ threads[t].inits = 0
               /\ ~threads[t].force
        /\ (Ended(t) /\ threads[t].force) => threads[t].inits = 1

C22_RaisesWhileErrorStored ==
    \A t \in DOMAIN threads :
        (initialization_error # None /\ ~threads[t].force
         /\ threads[t].pc \in {"check", "check_error", "call_init"}) =>
            /\ lib_calls' = lib_calls
            /\ initialization_error' = initialization_error
            /\ oracle_client_initialized' = oracle_client_initialized
            /\ \/ threads[t].pc = "check" /\ threads'[t].pc = "check_error"
               \/ /\ threads[t].pc = "check_error"
                  /\ threads'[t].pc = "raised"
                  /\ threads'[t].outcome = "RuntimeError: previously failed"

C23_CompleteDetails(d) ==
    /\ ~d.user.is_none /\ d.user.value # ""
    /\ ~d.password.is_none
    /\ ~d.dsn.is_none /\ d.dsn.value # ""

C23_ConnectAfterInitAndDetails ==
    \A t \in DOMAIN threads :
        threads[t].pc = "db_connect" \/ threads[t].connects > 0 =>
            /\ threads[t].fn = "connect"
            /\ oracle_client_initialized
            /\ C23_CompleteDetails(threads[t].conn_vars)
            /\ threads[t].connects <= 1

C23_FailuresPropagate ==
    \A t \in DOMAIN threads :
        (threads[t].fn = "connect" /\ threads[t].pc = "raised") =>
            /\ threads[t].connects = 0 =>
                  /\ threads[t].outcome \in
                         {"RuntimeError: previously failed",
                          "RuntimeError: during attempt", "ValueError"}
                  /\ threads[t].outcome = "ValueError" <=>
                         oracle_client_initialized
            /\ threads[t].connects = 1 =>
                  threads[t].outcome \in
                      {"DatabaseError", "RuntimeError: unexpected"}

C23_CalledOnlyFromDbConnect ==
    lib_calls'.connect # lib_calls.connect =>
        \E t \in DOMAIN threads :
            /\ threads[t].pc = "db_connect"
            /\ oracle_client_initialized
            /\ C23_CompleteDetails(threads[t].conn_vars)
            /\ threads'[t].outcome \in
                   {"connection", "DatabaseError", "RuntimeError: unexpected"}

C24_ReturnsNoneAfterFailedInit ==
    \A t \in DOMAIN threads :
        ~(/\ threads[t].fn = "connect"
          /\ threads[t].pc = "raised"
          /\ threads[t].outcome = "RuntimeError: previously failed")

\* C27: under every interleaving of the threads oracledb.init_oracle_client
\* is called at most once.
C27_InitInvokedAtMostOnce == lib_calls.init <= 1

----------------------------------------------------------------------------
(* Claims about the status compile_object determines and its commit.       *)

\* The rows fetched from USER_ERRORS, by their attribute: line 228 begins
\* the message of an ERROR row with "Error" and of any other row with
\* "Warning".
ErrorRowFetched ==
    \E i \in 1..Len(error_messages) : Slice(error_messages[i], 1, 5) = "Error"

WarningRowFetched ==
    \E i \in 1..Len(error_messages) :
        Slice(error_messages[i], 1, 7) = "Warning"

CompilationStatuses == {"success", "success_with_warnings", "failed"}

\* C25: a compile_object that returns after its source was executed and
\* its status determined returns 'failed' when a row with attribute ERROR
\* was fetched, 'success_with_warnings' when none was but there was a
\* DPY-7000 warning or a warning row, 'success' only with neither.
C25_StatusFromRows ==
    (cpc = "returned" /\ result.status \in CompilationStatuses) =>
        /\ ErrorRowFetched => result.status = "failed"
        /\ (~ErrorRowFetched /\ (plsql_warning \/ WarningRowFetched)) =>
               result.status = "success_with_warnings"
        /\ result.status = "success" =>
               (~plsql_warning /\ error_messages = <<>>)

SuccessStatuses == {"success", "success_with_warnings"}

\* C29 as stated: commit() is called, once, exactly when the status
\* returned is 'success' or 'success_with_warnings'.
C29_CommitIffSuccess ==
    /\ db_calls.commit <= 1
    /\ (InCompile /\ cpc = "returned") =>
           (db_calls.commit = 1 <=> result.status \in SuccessStatuses)

C29_CommitAtMostOnce ==
    /\ db_calls.commit <= 1
    /\ (InCompile /\ cpc = "returned") =>
          /\ result.status \in SuccessStatuses => db_calls.commit = 1
          /\ db_calls.commit = 1 =>
                result.status \in SuccessStatuses \cup {"error_compiling"}

C29_CommitBehindSuccess ==
    db_calls'.commit # db_calls.commit =>
        /\ db_calls.commit = 0
        /\ result'.status \in SuccessStatuses
        /\ \/ cpc' = "finally" /\ raised' = "none"
           \/ cpc' = "except" /\ raised' \in {"DatabaseError", "Exception"}

C29_StatusKeptUnlessRaised ==
    (db_calls.commit = 1 /\ cpc \in {"finally", "returned"}) =>
        result'.status = result.status

\* C29: compile_object calls commit() at most once, and only when it has
\* just set the status 'success' or 'success_with_warnings'; the status
\* stays as set when commit() returns, and becomes 'error_compiling' when
\* commit() raises; a returned status of 'success' or
\* 'success_with_warnings' means commit() was called, and a returned status
\* of 'failed', 'error_connecting', 'error_reading_file' or
\* 'no_connection_module' means it was not.
C29_CommitOnlyBehindSuccess ==
    /\ []C29_CommitAtMostOnce
    /\ [][C29_CommitBehindSuccess /\ C29_StatusKeptUnlessRaised]_vars

\* A compilation with warnings was committed and has returned.
C29_Witness ==
    /\ cpc = "returned"
    /\ result.status = "success_with_warnings"
    /\ db_calls.commit = 1
    /\ conn = "closed"

----------------------------------------------------------------------------
(* analyzer.find_referencing_objects_in_db (lines 221-337).  It uses the   *)
(* variables of compile_object that it has too: connect_loaded, conn,      *)
(* raised, result, db_calls and the position cpc.                          *)

\* The variables of compile_object the query function has no use for.
compile_only ==
    <<source, path, plsql_code, object_name, plsql_warning, error_messages>>

\* Lines 253-257: the import of connect failed.
QueryNoConnectionModule ==
    /\ cpc = "q_start"
    /\ ~connect_loaded
    /\ result' = [result EXCEPT
          !.status = "no_connection_module",
          !.error_message =
              "Database connection module not loaded or failed to import."]
    /\ cpc' = "returned"
    /\ UNCHANGED <<connect_loaded, conn, raised, db_calls>>
    /\ UNCHANGED compile_only
    /\ UNCHANGED outside_compiler

\* An exception leaves the try block of lines 260-316.
QueryRaise(kind) ==
    /\ raised' = kind
    /\ cpc' = "q_except"

\* Lines 259-264.
QueryConnect ==
    /\ cpc = "q_start"
    /\ connect_loaded
    /\ db_calls' = [db_calls EXCEPT !.connect = @ + 1]
    /\ \E outcome \in ConnectOutcomes :
          IF outcome = "connection"
          THEN conn' = "open" /\ cpc' = "q_schema" /\ UNCHANGED raised
          ELSE IF outcome = "None"
          THEN QueryRaise("ConnectionError") /\ UNCHANGED conn
          ELSE QueryRaise(outcome) /\ UNCHANGED conn
    /\ UNCHANGED <<connect_loaded, result>>
    /\ UNCHANGED compile_only
    /\ UNCHANGED outside_compiler

\* Lines 266-278: without a referenced_schema the current schema is asked
\* for; an exception of that query is logged and dropped.
QueryCurrentSchema ==
    /\ cpc = "q_schema"
    /\ \E schema_given \in BOOLEAN, outcome \in CallOutcomes :
          db_calls' = [db_calls EXCEPT
                          !.execute = IF schema_given THEN @ ELSE @ + 1]
    /\ cpc' = "q_execute"
    /\ UNCHANGED <<connect_loaded, result, conn, raised>>
    /\ UNCHANGED compile_only
    /\ UNCHANGED outside_compiler

\* A row of ALL_DEPENDENCIES.
DependencyRow ==
    [owner |-> "HR", name |-> "EMP_PKG", type |-> "PACKAGE BODY",
     dependency_type |-> "HARD"]

\* Lines 280-316: the query of ALL_DEPENDENCIES.  It can fail behind any
\* number of rows; the rows fetched stay in the result.
QueryDependencies ==
    /\ cpc = "q_execute"
    /\ db_calls' = [db_calls EXCEPT !.execute = @ + 1]
    /\ \E k \in 0..MaxRows, outcome \in CallOutcomes :
          IF outcome = "ok"
          THEN /\ result' = [result EXCEPT
                      !.referencing_objects = [i \in 1..k |-> DependencyRow],
                      !.status = "success"]
               /\ cpc' = "q_finally"
               /\ UNCHANGED raised
          ELSE /\ result' = [result EXCEPT
                      !.referencing_objects = [i \in 1..k |-> DependencyRow]]
               /\ QueryRaise(outcome)
    /\ UNCHANGED <<connect_loaded, conn>>
    /\ UNCHANGED compile_only
    /\ UNCHANGED outside_compiler

\* The status the except clause catching the exception sets: line 318
\* catches DatabaseError, line 322 ConnectionError, line 326 the others.
QueryHandlerStatus(kind) ==
    CASE kind = "DatabaseError"   -> "error_querying"
      [] kind = "ConnectionError" -> "error_connecting"
      [] OTHER                    -> "error_querying"

\* Lines 318-329.
QueryHandleError ==
    /\ cpc = "q_except"
    /\ result' = [result EXCEPT
          !.status = QueryHandlerStatus(raised),
          !.error_message =
              (CASE raised = "DatabaseError"   -> "Database query error: "
                 [] raised = "ConnectionError" -> "Connection error: "
                 [] OTHER -> "Unexpected error querying dependencies: ")
              \o raised]
    /\ raised' = "none"
    /\ cpc' = "q_finally"
    /\ UNCHANGED <<connect_loaded, conn, db_calls>>
    /\ UNCHANGED compile_only
    /\ UNCHANGED outside_compiler

\* Lines 330-337: the connection is closed if there is one; an exception of
\* close() is dropped.  Then the function returns.
QueryFinally ==
    /\ cpc = "q_finally"
    /\ IF conn = "open"
       THEN /\ db_calls' = [db_calls EXCEPT !.close = @ + 1]
            /\ \E outcome \in {"ok", "Exception"} :
                  conn' = IF outcome = "ok" THEN "closed" ELSE "open"
       ELSE UNCHANGED <<conn, db_calls>>
    /\ cpc' = "returned"
    /\ UNCHANGED <<connect_loaded, result, raised>>
    /\ UNCHANGED compile_only
    /\ UNCHANGED outside_compiler

NextQuery ==
    \/ QueryNoConnectionModule
    \/ QueryConnect
    \/ QueryCurrentSchema
    \/ QueryDependencies
    \/ QueryHandleError
    \/ QueryFinally

\* Lines 242-251 and 259: the result and conn at the start.
InitQuery ==
    /\ connect_loaded \in BOOLEAN
    /\ source = [exists |-> FALSE, readable |-> FALSE, text |-> ""]
    /\ path = ""
    /\ cpc = "q_start"
    /\ plsql_code = ""
    /\ object_name = None
    /\ result = [status |-> None, referenced_object |-> "EMP",
                 referencing_objects |-> <<>>, error_message |-> None]
    /\ conn = None
    /\ raised = "none"
    /\ plsql_warning = FALSE
    /\ error_messages = <<>>
    /\ db_calls = [connect |-> 0, execute |-> 0, commit |-> 0, close |-> 0]
    /\ AnalyzerIdle
    /\ ConcurrentIdle
    /\ DetailsIdle
    /\ ClientIdle
    /\ BatchIdle

\* A call of compile_object or a call of find_referencing_objects_in_db.
InitSession == InitCompile \/ InitQuery

NextSession == NextCompile \/ NextQuery

SpecSession == InitSession /\ [][NextSession]_vars

\* find_referencing_objects_in_db is running or has returned.
InQuery == "referencing_objects" \in DOMAIN result

\* connect() was called and gave no connection.
ConnectFailed == db_calls.connect = 1 /\ conn = None

\* C26: when connect() gave no connection, compile_object and
\* find_referencing_objects_in_db return 'error_connecting', and they return
\* 'error_compiling' or 'error_querying' only when a connection was
\* obtained.
C26_ConnectFailureIsErrorConnecting ==
    cpc = "returned" =>
        /\ ConnectFailed => result.status = "error_connecting"
        /\ result.status \in {"error_compiling", "error_querying"} =>
               conn # None

C28_ClosedOnceAtReturn ==
    /\ db_calls.close <= 1
    /\ cpc # "returned" => db_calls.close = 0
    /\ cpc = "returned" =>
          /\ db_calls.close = 1 <=> conn # None
          /\ raised = "none"

C28_CloseKeepsResult ==
    db_calls'.close # db_calls.close =>
        /\ conn = "open"
        /\ result' = result
        /\ raised' = "none"
        /\ cpc' = "returned"

\* C28: close() is called once on the connection obtained, in the step that
\* returns, and not at all when none was obtained; the step that calls
\* close() leaves the result as it was and no exception in flight, whether
\* close() raises or not.
C28_ConnectionClosedOnce ==
    /\ []C28_ClosedOnceAtReturn
    /\ [][C28_CloseKeepsResult]_vars

\* find_referencing_objects_in_db has returned 'error_querying' behind two
\* rows, and close() raised.
C28_Witness ==
    /\ InQuery
    /\ cpc = "returned"
    /\ result.status = "error_querying"
    /\ Len(result.referencing_objects) = MaxRows
    /\ db_calls.close = 1
    /\ conn = "open"

----------------------------------------------------------------------------
(* The batch runs: compile_all.main (lines 60-115) and cli.handle_compile  *)
(* (lines 29-77).  compile_object is the call of one step; it returns one  *)
(* of its seven statuses (C18).                                            *)

MaxFiles == 3

\* What a path given to the CLI can be.
PathKinds == {"file", "missing", "directory"}

\* compile_all.py lines 62-64: no file was found.
MainNoFiles ==
    /\ bpc = "main"
    /\ files = <<>>
    /\ exit_code' = 0
    /\ bpc' = "exited"
    /\ UNCHANGED <<files, file_index, counts, results, overall_success>>
    /\ UNCHANGED outside_batch

\* compile_all.py lines 66-77: the counters are set to zero.
MainStart ==
    /\ bpc = "main"
    /\ files # <<>>
    /\ counts' = [success |-> 0, warning |-> 0, error |-> 0]
    /\ bpc' = "main_loop"
    /\ UNCHANGED <<files, file_index, results, overall_success, exit_code>>
    /\ UNCHANGED outside_batch

\* compile_all.py lines 96-102 with a failed compilation counted as a
\* success and as an error.
CountFailedTwice(status) ==
    IF status = "success"
    THEN [counts EXCEPT !.success = @ + 1]
    ELSE IF status = "success_with_warnings"
    THEN [counts EXCEPT !.warning = @ + 1, !.success = @ + 1]
    ELSE [counts EXCEPT !.error = @ + 1,
                        !.success = IF status = "failed" THEN @ + 1 ELSE @]

\* compile_all.py lines 96-102.
Count(status) ==
    IF status = "success"
    THEN [counts EXCEPT !.success = @ + 1]
    ELSE IF status = "success_with_warnings"
    THEN [counts EXCEPT !.warning = @ + 1, !.success = @ + 1]
    ELSE [counts EXCEPT !.error = @ + 1]

\* compile_all.py lines 80-102: one pass of the loop.
MainCompile ==
    /\ bpc = "main_loop"
    /\ file_index < Len(files)
    /\ \E status \in Statuses : counts' = Count(status)
    /\ file_index' = file_index + 1
    /\ UNCHANGED <<files, bpc, results, overall_success, exit_code>>
    /\ UNCHANGED outside_batch

\* compile_all.py lines 105-115.
MainExit ==
    /\ bpc = "main_loop"
    /\ file_index = Len(files)
    /\ exit_code' = IF counts.error > 0 THEN 1 ELSE 0
    /\ bpc' = "exited"
    /\ UNCHANGED <<files, file_index, counts, results, overall_success>>
    /\ UNCHANGED outside_batch

\* "status not in ('success', 'success_with_warnings')" (cli.py line 52).
NotSuccess(status) == status \notin {"success", "success_with_warnings"}

\* cli.py lines 34-58: one pass of the loop.
CliCompile ==
    /\ bpc = "cli_loop"
    /\ file_index < Len(files)
    /\ \E status \in Statuses :
          LET entry == IF files[file_index + 1] = "missing"
                       THEN "error_file_not_found"
                       ELSE IF files[file_index + 1] = "directory"
                       THEN "error_not_a_file"
                       ELSE status
          IN  /\ results' = Append(results, entry)
              /\ overall_success' = (overall_success /\ ~NotSuccess(entry))
    /\ file_index' = file_index + 1
    /\ UNCHANGED <<files, bpc, counts, exit_code>>
    /\ UNCHANGED outside_batch

\* cli.py lines 60-77: the results are printed; sys.exit(1), or the
\* handler returns and the process ends with exit code 0.
CliExit ==
    /\ bpc = "cli_loop"
    /\ file_index = Len(files)
    /\ exit_code' = IF ~overall_success THEN 1 ELSE 0
    /\ bpc' = "exited"
    /\ UNCHANGED <<files, file_index, counts, results, overall_success>>
    /\ UNCHANGED outside_batch

NextBatch ==
    \/ MainNoFiles
    \/ MainStart
    \/ MainCompile
    \/ MainExit
    \/ CliCompile
    \/ CliExit

\* compile_all.main behind find_sql_files (line 60), which finds files
\* only, or cli.handle_compile with the one path or more that the argument
\* parser demands (cli.py line 146).
InitBatch ==
    /\ \/ /\ bpc = "main"
          /\ files \in UNION {[1..n -> {"file"}] : n \in 0..MaxFiles}
       \/ /\ bpc = "cli_loop"
          /\ files \in UNION {[1..n -> PathKinds] : n \in 1..MaxFiles}
    /\ file_index = 0
    /\ counts = [success |-> 0, warning |-> 0, error |-> 0]
    /\ results = <<>>
    /\ overall_success = TRUE
    /\ exit_code = NotExited
    /\ AnalyzerIdle
    /\ ConcurrentIdle
    /\ DetailsIdle
    /\ CompilerIdle
    /\ ClientIdle

SpecBatch == InitBatch /\ [][NextBatch]_vars

C30_MainCounts ==
    (bpc = "main_loop" \/ (bpc = "exited" /\ results = <<>>)) =>
        /\ counts.success + counts.error = file_index
        /\ counts.warning <= counts.success
        /\ file_index <= Len(files)
        /\ bpc = "exited" =>
              /\ file_index = Len(files)
              /\ exit_code \in {0, 1}
              /\ exit_code = 1 <=> counts.error > 0

C30_CliResults ==
    (bpc = "cli_loop" \/ (bpc = "exited" /\ results # <<>>)) =>
        /\ Len(results) = file_index
        /\ file_index <= Len(files)
        /\ \A i \in 1..Len(results) :
              /\ files[i] = "missing" <=> results[i] = "error_file_not_found"
              /\ files[i] = "directory" <=> results[i] = "error_not_a_file"
        /\ bpc = "exited" =>
              /\ Len(results) = Len(files)
              /\ exit_code \in {0, 1}
              /\ exit_code = 1 <=>
                     \E i \in 1..Len(results) : NotSuccess(results[i])

C30_OneFilePerPass ==
    file_index' # file_index =>
        /\ file_index' = file_index + 1
        /\ files' = files
        /\ bpc' = bpc

\* C30: compile_all.main counts every file found once, as a success or as
\* an error, with no more warnings than successes, and exits with 1 exactly
\* when it counted an error; cli.handle_compile has one result entry for
\* every path listed, missing paths and directories included, and exits
\* with 1 exactly when an entry is neither 'success' nor
\* 'success_with_warnings'; a failure of one file does not end either loop.
C30_EveryFileOnce ==
    /\ [](C30_MainCounts /\ C30_CliResults)
    /\ [][C30_OneFilePerPass]_vars

\* compile_all.main has exited with 1 behind a run whose first file failed
\* and whose last file compiled with warnings.
C30_Witness ==
    /\ bpc = "exited"
    /\ results = <<>>
    /\ Len(files) = MaxFiles
    /\ counts.error >= 1
    /\ counts.warning >= 1
    /\ counts.success >= 1
    /\ exit_code = 1

=============================================================================
